---- MODULE Spec2Model ----
(***************************************************************************)
(* Model of the MetaMCP Facebook tool layer: the zod schema catalog        *)
(* (toolSchemas), the FacebookManager request-shaping methods and the tool *)
(* registries (createToolRegistry) in their two generations:               *)
(*   "legacy"        27 tools  src/src/toolSchemas.ts, src/src/manager.ts, *)
(*                             src/unnamed/part_001 (registry)             *)
(*   "consolidated"  11 tools  src/src/toolRegistry.ts,                    *)
(*                             src/unnamed/part_000 (manager); its schema  *)
(*                             catalog is not among the sources and is     *)
(*                             modelled from the specification.            *)
(* The AI-SDK tool sets (createAiSdkTools, src/src/ai-sdk.ts and           *)
(* src/unnamed/part_003) are a second surface over the same schemas.       *)
(* One tool invocation (or one direct Manager call) is in progress at a    *)
(* time; every request handed to the client collaborator is logged, and    *)
(* the client's answer is a nondeterministic input.                        *)
(***************************************************************************)
EXTENDS Integers, Sequences, FiniteSets, TLC

VARIABLES
    phase,      \* "idle" | "awaiting" (a request is in flight) | "done"
    cur,        \* the invocation in progress: entry, generation, tool, raw arguments
    mcalls,     \* Manager methods the handler (or the direct caller) invoked, in order
    active,     \* the Manager method whose continuation waits for the response
    log,        \* requests issued to the client during this invocation, in order
    result,     \* outcome of the invocation
    manager,    \* the FacebookManager: its code generation and its page id
    registry,   \* the registry createToolRegistry returned (NoRegistry before)
    answers     \* the client's answers received during this invocation, in order

vars == <<phase, cur, mcalls, active, log, result, manager, registry, answers>>

(***************************************************************************)
(* JavaScript values, tagged by type.                                      *)
(***************************************************************************)
Undefined == [t |-> "undefined"]
Str(s) == [t |-> "string", s |-> s]
Num(n) == [t |-> "number", n |-> n, frac |-> FALSE]
\* the non-integer number n + 1/2
Frac(n) == [t |-> "number", n |-> n, frac |-> TRUE]
Bool(b) == [t |-> "boolean", b |-> b]
\* an object: f maps every property name of interest to its value (Undefined when absent)
Obj(f) == [t |-> "object", f |-> f]
Arr(a) == [t |-> "array", a |-> a]
\* a string kept as its sequence of characters (for the strings that get URL-encoded)
Text(cs) == [t |-> "string", cs |-> cs]
\* a Record<string,string>: its own properties in insertion order
Rec(kv) == [t |-> "object", kv |-> kv]

IsDefined(v) == v # Undefined
\* JavaScript truthiness of the values used here
Truthy(v) ==
    CASE v.t = "undefined" -> FALSE
      [] v.t = "boolean" -> v.b
      [] v.t = "number" -> v.frac \/ v.n # 0
      [] v.t = "string" -> IF "s" \in DOMAIN v THEN v.s # "" ELSE v.cs # <<>>
      [] OTHER -> TRUE
\* a ?? b
Coalesce(a, b) == IF a = Undefined THEN b ELSE a

RECURSIVE SeqSum(_)
SeqSum(s) == IF s = <<>> THEN 0 ELSE Head(s) + SeqSum(Tail(s))

Range(s) == {s[i] : i \in DOMAIN s}

(***************************************************************************)
(* zod: a schema is data (kind, bounds, optional, default); parsing a raw  *)
(* value yields [ok, v, issues].                                           *)
(***************************************************************************)
ZType(kind) ==
    [kind |-> kind, hasMin |-> FALSE, min |-> 0, hasMax |-> FALSE, max |-> 0,
     opt |-> FALSE, hasDef |-> FALSE, def |-> Undefined]
ZString == ZType("string")
ZUrl == ZType("url")
ZNumberInt == ZType("int")
ZBoolean == ZType("boolean")
ZMin(s, n) == [s EXCEPT !.hasMin = TRUE, !.min = n]
ZMax(s, n) == [s EXCEPT !.hasMax = TRUE, !.max = n]
ZOptional(s) == [s EXCEPT !.opt = TRUE]
ZDefault(s, d) == [s EXCEPT !.hasDef = TRUE, !.def = d]

\* z.string().url(): the strings of the model's universe that parse as a URL
IsUrl(s) == s \in {"https://x", "https://x/y.jpg"}

BatchMethods == {"GET", "POST", "DELETE", "PATCH"}

\* mutant: two of the default metrics change places
DEFAULT_METRICS_reordered == <<
    "post_impressions_unique", "post_clicks", "post_reactions_like_total",
    "post_reactions_wow_total", "post_reactions_love_total",
    "post_reactions_haha_total", "post_reactions_sorry_total",
    "post_reactions_anger_total" >>

\* FacebookManager.DEFAULT_METRICS, in declared order
DEFAULT_METRICS == <<
    "post_impressions_unique", "post_clicks", "post_reactions_like_total",
    "post_reactions_love_total", "post_reactions_wow_total",
    "post_reactions_haha_total", "post_reactions_sorry_total",
    "post_reactions_anger_total" >>

\* the closed set of metric names the fb_get_insights schema admits
InsightMetrics == Range(DEFAULT_METRICS)

Get(o, k) == IF k \in DOMAIN o.f THEN o.f[k] ELSE Undefined
IsObject(v) == v.t = "object" /\ "f" \in DOMAIN v
IsPlainString(v) == v.t = "string" /\ "s" \in DOMAIN v

\* facebookUserSchema
ValidUser(u) ==
    /\ IsObject(u)
    /\ IsPlainString(Get(u, "id")) /\ Len(Get(u, "id").s) >= 1
    /\ Get(u, "name") = Undefined \/ Get(u, "name").t = "string"

\* commentSchema
ValidComment(c) ==
    /\ IsObject(c)
    /\ IsPlainString(Get(c, "id")) /\ Len(Get(c, "id").s) >= 1
    /\ Get(c, "message") = Undefined \/ Get(c, "message").t = "string"
    /\ Get(c, "from") = Undefined \/ ValidUser(Get(c, "from"))
    /\ Get(c, "created_time") = Undefined \/ Get(c, "created_time").t = "string"

\* commentsSchema: { data: z.array(commentSchema).default([]) }
ValidComments(v) ==
    /\ IsObject(v)
    /\ \/ Get(v, "data") = Undefined
       \/ /\ Get(v, "data").t = "array"
          /\ \A i \in DOMAIN Get(v, "data").a : ValidComment(Get(v, "data").a[i])
ParsedComments(v) == Obj([data |-> Coalesce(Get(v, "data"), Arr(<<>>))])

\* batchOperationSchema
\* mutant: the method of a batch operation may be any string
ValidBatchOperation_anyMethod(op) ==
    /\ IsObject(op)
    /\ IsPlainString(Get(op, "method"))
    /\ IsPlainString(Get(op, "relative_url")) /\ Len(Get(op, "relative_url").s) >= 1
    /\ \/ Get(op, "body") = Undefined
       \/ /\ Get(op, "body").t = "object" /\ "kv" \in DOMAIN Get(op, "body")
          /\ \A i \in DOMAIN Get(op, "body").kv : Get(op, "body").kv[i].v.t = "string"
    /\ Get(op, "name") = Undefined \/ Get(op, "name").t = "string"
    /\ \/ Get(op, "omit_response_on_success") = Undefined
       \/ Get(op, "omit_response_on_success").t = "boolean"

ValidBatchOperation(op) ==
    /\ IsObject(op)
    /\ IsPlainString(Get(op, "method")) /\ Get(op, "method").s \in BatchMethods
    /\ IsPlainString(Get(op, "relative_url")) /\ Len(Get(op, "relative_url").s) >= 1
    /\ \/ Get(op, "body") = Undefined
       \/ /\ Get(op, "body").t = "object" /\ "kv" \in DOMAIN Get(op, "body")
          /\ \A i \in DOMAIN Get(op, "body").kv : Get(op, "body").kv[i].v.t = "string"
    /\ Get(op, "name") = Undefined \/ Get(op, "name").t = "string"
    /\ \/ Get(op, "omit_response_on_success") = Undefined
       \/ Get(op, "omit_response_on_success").t = "boolean"

\* the checks of one schema on a value that is not undefined
ZAccepts(s, v) ==
    CASE s.kind = "string" ->
            IsPlainString(v) /\ (s.hasMin => Len(v.s) >= s.min)
      [] s.kind = "url" -> IsPlainString(v) /\ IsUrl(v.s)
      [] s.kind = "int" ->
            /\ v.t = "number" /\ ~v.frac
            /\ s.hasMin => v.n >= s.min
            /\ s.hasMax => v.n <= s.max
      [] s.kind = "boolean" -> v.t = "boolean"
      [] s.kind = "comments" -> ValidComments(v)
      [] s.kind = "operations" ->
            /\ v.t = "array"
            /\ \A i \in DOMAIN v.a : ValidBatchOperation(v.a[i])
            /\ s.hasMin => Len(v.a) >= s.min
            /\ s.hasMax => Len(v.a) <= s.max
      [] s.kind = "metrics" ->
            /\ v.t = "array"
            /\ \A i \in DOMAIN v.a : IsPlainString(v.a[i]) /\ v.a[i].s \in InsightMetrics
      [] OTHER -> FALSE

ZFieldOk(s, v) ==
    IF v = Undefined THEN s.hasDef \/ s.opt ELSE ZAccepts(s, v)
ZFieldValue(s, v) ==
    IF v = Undefined THEN (IF s.hasDef THEN s.def ELSE Undefined)
    ELSE IF s.kind = "comments" THEN ParsedComments(v)
    ELSE v

\* z.object(shape).parse(raw): unknown keys are stripped, defaults applied
ZodParse(shape, raw) ==
    IF ~IsObject(raw)
    THEN [ok |-> FALSE, v |-> Undefined, issues |-> {""}]
    ELSE LET bad == {k \in DOMAIN shape : ~ZFieldOk(shape[k], Get(raw, k))}
         IN IF bad # {}
            THEN [ok |-> FALSE, v |-> Undefined, issues |-> bad]
            ELSE [ok |-> TRUE,
                  v |-> Obj([k \in DOMAIN shape |-> ZFieldValue(shape[k], Get(raw, k))]),
                  issues |-> {}]

postIdSchema == ZMin(ZString, 1)
commentIdSchema == ZMin(ZString, 1)
\* mutant: the message may be the empty string
messageSchema_allowsEmpty == ZString

messageSchema == ZMin(ZString, 1)
imageUrlSchema == ZUrl
userIdSchema == ZMin(ZString, 1)
\* mutant: the default of the limit lies outside its own range
limitSchema_defaultZero == ZDefault(ZOptional(ZMax(ZMin(ZNumberInt, 1), 100)), Num(0))

\* mutant: the limit has no upper bound
limitSchema_uncapped == ZDefault(ZOptional(ZMin(ZNumberInt, 1)), Num(25))

limitSchema == ZDefault(ZOptional(ZMax(ZMin(ZNumberInt, 1), 100)), Num(25))
PostIdOnly == [post_id |-> postIdSchema]

\* the legacy catalog, in declared key order
toolSchemas == <<
    [name |-> "fb_post_to_facebook", shape |->
        [message |-> messageSchema,
         link |-> ZOptional(ZUrl),
         place |-> ZOptional(ZString),
         published |-> ZDefault(ZOptional(ZBoolean), Bool(TRUE)),
         scheduled_publish_time |-> ZOptional(ZNumberInt)]],
    [name |-> "fb_reply_to_comment", shape |->
        [post_id |-> postIdSchema, comment_id |-> commentIdSchema,
         message |-> messageSchema]],
    [name |-> "fb_get_page_posts", shape |->
        [limit |-> limitSchema, after |-> ZOptional(ZString)]],
    [name |-> "fb_get_post_comments", shape |->
        [post_id |-> postIdSchema, limit |-> limitSchema, after |-> ZOptional(ZString)]],
    [name |-> "fb_delete_post", shape |-> PostIdOnly],
    [name |-> "fb_delete_comment", shape |-> [comment_id |-> commentIdSchema]],
    [name |-> "fb_delete_comment_from_post", shape |->
        [post_id |-> postIdSchema, comment_id |-> commentIdSchema]],
    [name |-> "fb_filter_negative_comments", shape |-> [comments |-> ZType("comments")]],
    [name |-> "fb_get_number_of_comments", shape |-> PostIdOnly],
    [name |-> "fb_get_number_of_likes", shape |-> PostIdOnly],
    [name |-> "fb_get_post_insights", shape |-> PostIdOnly],
    [name |-> "fb_get_post_impressions_unique", shape |-> PostIdOnly],
    [name |-> "fb_get_post_clicks", shape |-> PostIdOnly],
    [name |-> "fb_get_post_reactions_like_total", shape |-> PostIdOnly],
    [name |-> "fb_get_post_reactions_love_total", shape |-> PostIdOnly],
    [name |-> "fb_get_post_reactions_wow_total", shape |-> PostIdOnly],
    [name |-> "fb_get_post_reactions_haha_total", shape |-> PostIdOnly],
    [name |-> "fb_get_post_reactions_sorry_total", shape |-> PostIdOnly],
    [name |-> "fb_get_post_reactions_anger_total", shape |-> PostIdOnly],
    [name |-> "fb_get_post_top_commenters", shape |-> PostIdOnly],
    [name |-> "fb_post_image_to_facebook", shape |->
        [image_url |-> imageUrlSchema, caption |-> ZDefault(ZOptional(ZString), Str(""))]],
    [name |-> "fb_send_dm_to_user", shape |->
        [user_id |-> userIdSchema, message |-> messageSchema]],
    [name |-> "fb_update_post", shape |->
        [post_id |-> postIdSchema, new_message |-> messageSchema]],
    [name |-> "fb_schedule_post", shape |->
        [message |-> messageSchema, publish_time |-> ZMin(ZNumberInt, 1)]],
    [name |-> "fb_get_page_fan_count", shape |-> <<>>],
    [name |-> "fb_get_post_share_count", shape |-> PostIdOnly],
    [name |-> "fb_batch_request", shape |->
        [operations |-> ZMin(ZType("operations"), 1),
         include_headers |-> ZDefault(ZOptional(ZBoolean), Bool(FALSE))]]
>>

\* the consolidated catalog (11 tools), in declared key order
toolSchemasConsolidated == <<
    [name |-> "fb_create_post", shape |->
        [message |-> ZOptional(messageSchema),
         image_url |-> ZOptional(imageUrlSchema),
         link |-> ZOptional(ZUrl),
         place |-> ZOptional(ZString),
         published |-> ZDefault(ZOptional(ZBoolean), Bool(TRUE)),
         scheduled_publish_time |-> ZOptional(ZNumberInt)]],
    [name |-> "fb_update_post", shape |->
        [post_id |-> postIdSchema, message |-> messageSchema]],
    [name |-> "fb_delete_post", shape |-> PostIdOnly],
    [name |-> "fb_get_posts", shape |->
        [limit |-> limitSchema, after |-> ZOptional(ZString),
         fields |-> ZOptional(ZString)]],
    [name |-> "fb_get_comments", shape |->
        [post_id |-> postIdSchema, limit |-> limitSchema, after |-> ZOptional(ZString),
         include_summary |-> ZDefault(ZOptional(ZBoolean), Bool(FALSE))]],
    [name |-> "fb_reply_comment", shape |->
        [comment_id |-> commentIdSchema, message |-> messageSchema]],
    [name |-> "fb_delete_comment", shape |-> [comment_id |-> commentIdSchema]],
    [name |-> "fb_get_insights", shape |->
        [post_id |-> postIdSchema, metrics |-> ZOptional(ZType("metrics"))]],
    [name |-> "fb_get_page_info", shape |-> [fields |-> ZOptional(ZString)]],
    [name |-> "fb_send_message", shape |->
        [user_id |-> userIdSchema, message |-> messageSchema]],
    [name |-> "fb_batch", shape |->
        [operations |-> ZMax(ZMin(ZType("operations"), 1), 50),
         include_headers |-> ZDefault(ZOptional(ZBoolean), Bool(FALSE))]]
>>

\* cross-field constraint of fb_create_post: a message or an image_url is present
\* mutant: the refinement asks for nothing
CreatePostRefine_anything(v) == TRUE

CreatePostRefine(v) ==
    IsDefined(Get(v, "message")) \/ IsDefined(Get(v, "image_url"))

Catalog(gen) == IF gen = "legacy" THEN toolSchemas ELSE toolSchemasConsolidated
SchemaNames(gen) == [i \in DOMAIN Catalog(gen) |-> Catalog(gen)[i].name]
ShapeOf(gen, name) ==
    (CHOOSE e \in Range(Catalog(gen)) : e.name = name).shape

\* toolSchemas[name].parse(args)
SchemaParse(gen, name, raw) ==
    LET r == ZodParse(ShapeOf(gen, name), raw)
    IN IF r.ok /\ gen = "consolidated" /\ name = "fb_create_post" /\ ~CreatePostRefine(r.v)
       THEN [ok |-> FALSE, v |-> Undefined, issues |-> {"message"}]
       ELSE r

(***************************************************************************)
(* Text conversions used by the Manager.                                   *)
(***************************************************************************)
\* Array.prototype.join(",") on an array of strings
RECURSIVE JoinComma(_)
JoinComma(a) ==
    IF a = <<>> THEN ""
    ELSE IF Len(a) = 1 THEN a[1].s
    ELSE a[1].s \o "," \o JoinComma(Tail(a))

\* characters the application/x-www-form-urlencoded serializer leaves as they are
Unreserved == {"a", "b", "k", "v", "1", "2", "*", "-", ".", "_"}
\* percent-encoding of the other characters of the model's alphabet
PercentEncode(c) ==
    CASE c = "&" -> <<"%", "2", "6">>
      [] c = "=" -> <<"%", "3", "D">>
      [] c = "%" -> <<"%", "2", "5">>
      [] c = "+" -> <<"%", "2", "B">>
      [] c = "/" -> <<"%", "2", "F">>
UrlEncodeChar(c) ==
    IF c \in Unreserved THEN <<c>>
    ELSE IF c = " " THEN <<"+">>
    ELSE PercentEncode(c)
RECURSIVE UrlEncode(_)
UrlEncode(cs) ==
    IF cs = <<>> THEN <<>> ELSE UrlEncodeChar(Head(cs)) \o UrlEncode(Tail(cs))

\* mutant: names and values are joined without escaping
RECURSIVE URLSearchParamsToString_unescaped(_)
URLSearchParamsToString_unescaped(kv) ==
    IF kv = <<>> THEN <<>>
    ELSE LET pair == kv[1].k \o <<"=">> \o kv[1].v.cs
         IN IF Len(kv) = 1 THEN pair
            ELSE pair \o <<"&">> \o URLSearchParamsToString_unescaped(Tail(kv))

\* new URLSearchParams(body).toString(): name=value pairs joined by "&"
RECURSIVE URLSearchParamsToString(_)
URLSearchParamsToString(kv) ==
    IF kv = <<>> THEN <<>>
    ELSE LET pair == UrlEncode(kv[1].k) \o <<"=">> \o UrlEncode(kv[1].v.cs)
         IN IF Len(kv) = 1 THEN pair
            ELSE pair \o <<"&">> \o URLSearchParamsToString(Tail(kv))

\* JSON.stringify of an object: properties whose value is undefined are left out
JsonObject(f) == [k \in {x \in DOMAIN f : f[x] # Undefined} |-> f[k]]
\* JSON.stringify of an array of objects: a string holding the JSON document
JsonStringify(objs) ==
    [t |-> "string", json |-> [i \in DOMAIN objs |-> JsonObject(objs[i])]]
\* JSON.parse of such a string
JsonParse(str) == str.json

(***************************************************************************)
(* FacebookManager: each method shapes the request record it hands to      *)
(* client.request.  A parameter left out is Undefined, and a default       *)
(* parameter value replaces Undefined as in JavaScript.                    *)
(***************************************************************************)
Request(method, endpoint, params, body) ==
    [method |-> method, endpoint |-> endpoint, params |-> params, body |-> body]

\* { message, ...options }
postToFacebook(pageId, message, options) ==
    LET opts == IF options = Undefined THEN <<>> ELSE options.f
    IN Request("POST", pageId \o "/feed",
               Obj(opts @@ [message |-> message]), Undefined)

replyToComment(commentId, message) ==
    Request("POST", commentId.s \o "/comments", Obj([message |-> message]), Undefined)

\* mutant: the cursor is not passed on
getPagePostsLegacy_cursorDropped(pageId, limit, after) ==
    Request("GET", pageId \o "/posts",
            Obj([fields |-> Str("id,message,created_time"),
                 limit |-> Coalesce(limit, Num(25)),
                 after |-> Undefined]), Undefined)

getPagePostsLegacy(pageId, limit, after) ==
    Request("GET", pageId \o "/posts",
            Obj([fields |-> Str("id,message,created_time"),
                 limit |-> Coalesce(limit, Num(25)),
                 after |-> after]), Undefined)

\* mutant: the fields argument is ignored
getPagePosts_defaultFields(pageId, limit, after, fields) ==
    Request("GET", pageId \o "/posts",
            Obj([fields |-> Str("id,message,created_time"),
                 limit |-> Coalesce(limit, Num(25)),
                 after |-> after]), Undefined)

getPagePosts(pageId, limit, after, fields) ==
    Request("GET", pageId \o "/posts",
            Obj([fields |-> Coalesce(fields, Str("id,message,created_time")),
                 limit |-> Coalesce(limit, Num(25)),
                 after |-> after]), Undefined)

getPostCommentsLegacy(postId, limit, after) ==
    Request("GET", postId.s \o "/comments",
            Obj([fields |-> Str("id,message,from,created_time"),
                 limit |-> Coalesce(limit, Num(25)),
                 after |-> after]), Undefined)

\* mutant: the summary flag is always sent, as "true" or "false"
getPostComments_summaryAlwaysSent(postId, limit, after, includeSummary) ==
    Request("GET", postId.s \o "/comments",
            Obj([fields |-> Str("id,message,from,created_time"),
                 limit |-> Coalesce(limit, Num(25)),
                 after |-> after,
                 summary |-> IF Truthy(Coalesce(includeSummary, Bool(FALSE)))
                             THEN Str("true") ELSE Str("false")]), Undefined)

getPostComments(postId, limit, after, includeSummary) ==
    Request("GET", postId.s \o "/comments",
            Obj([fields |-> Str("id,message,from,created_time"),
                 limit |-> Coalesce(limit, Num(25)),
                 after |-> after,
                 summary |-> IF Truthy(Coalesce(includeSummary, Bool(FALSE)))
                             THEN Str("true") ELSE Undefined]), Undefined)

deletePost(postId) == Request("DELETE", postId.s, Undefined, Undefined)

deleteComment(commentId) == Request("DELETE", commentId.s, Undefined, Undefined)

getNumberOfLikesRequest(postId) ==
    Request("GET", postId.s, Obj([fields |-> Str("likes.summary(true)")]), Undefined)

\* the private getInsights of the legacy Manager
getInsightsLegacy(postId, metrics) ==
    Request("GET", postId.s \o "/insights",
            Obj([metric |-> Str(JoinComma(metrics.a)), period |-> Str("lifetime")]),
            Undefined)

\* mutant: metrics ?? DEFAULT_METRICS, an empty list is sent as it is
getInsights_emptyListKept(postId, metrics) ==
    LET metricsToFetch ==
            IF metrics # Undefined THEN metrics.a
            ELSE [i \in DOMAIN DEFAULT_METRICS |-> Str(DEFAULT_METRICS[i])]
    IN Request("GET", postId.s \o "/insights",
               Obj([metric |-> Str(JoinComma(metricsToFetch)),
                    period |-> Str("lifetime")]), Undefined)

\* metrics?.length ? metrics : DEFAULT_METRICS
getInsights(postId, metrics) ==
    LET metricsToFetch ==
            IF metrics # Undefined /\ Len(metrics.a) # 0 THEN metrics.a
            ELSE [i \in DOMAIN DEFAULT_METRICS |-> Str(DEFAULT_METRICS[i])]
    IN Request("GET", postId.s \o "/insights",
               Obj([metric |-> Str(JoinComma(metricsToFetch)),
                    period |-> Str("lifetime")]), Undefined)

\* mutant: the photo request also says whether to publish
postImageToFacebook_withPublished(pageId, imageUrl, caption) ==
    Request("POST", pageId \o "/photos",
            Obj([url |-> imageUrl, caption |-> caption, published |-> Bool(TRUE)]),
            Undefined)

postImageToFacebook(pageId, imageUrl, caption) ==
    Request("POST", pageId \o "/photos",
            Obj([url |-> imageUrl, caption |-> caption]), Undefined)

\* description and title are set only when truthy
postVideoToFacebook(pageId, videoUrl, description, title) ==
    Request("POST", pageId \o "/videos",
            Obj([file_url |-> videoUrl,
                 description |-> IF Truthy(description) THEN description ELSE Undefined,
                 title |-> IF Truthy(title) THEN title ELSE Undefined]), Undefined)

postReelStartRequest(pageId) ==
    Request("POST", pageId \o "/video_reels",
            Obj([upload_phase |-> Str("start")]), Undefined)

sendDmToUser(userId, message) ==
    Request("POST", "me/messages", Undefined,
            Obj([recipient |-> Obj([id |-> userId]),
                 message |-> Obj([text |-> message]),
                 messaging_type |-> Str("RESPONSE")]))

updatePost(postId, message) ==
    Request("POST", postId.s, Obj([message |-> message]), Undefined)

schedulePost(pageId, message, publishTime) ==
    Request("POST", pageId \o "/feed",
            Obj([message |-> message, published |-> Bool(FALSE),
                 scheduled_publish_time |-> publishTime]), Undefined)

getPageFanCountRequest(pageId) ==
    Request("GET", pageId, Obj([fields |-> Str("fan_count")]), Undefined)

getPostShareCountRequest(postId) ==
    Request("GET", postId.s, Obj([fields |-> Str("shares")]), Undefined)

getPageInfo(pageId, fields) ==
    Request("GET", pageId, Obj([fields |-> Coalesce(fields, Str("id,name,fan_count"))]),
            Undefined)

\* one mapped sub-operation of batchRequest
BatchEntry(operation) ==
    [method |-> Get(operation, "method"),
     relative_url |-> Get(operation, "relative_url"),
     body |-> IF Truthy(Get(operation, "body"))
              THEN Text(URLSearchParamsToString(Get(operation, "body").kv))
              ELSE Undefined,
     name |-> Get(operation, "name"),
     omit_response_on_success |-> Get(operation, "omit_response_on_success")]

batchRequest(operations, includeHeaders) ==
    Request("POST", "",
            Obj([batch |-> JsonStringify([i \in DOMAIN operations.a |->
                                             BatchEntry(operations.a[i])]),
                 include_headers |-> Coalesce(includeHeaders, Bool(FALSE))]),
            Undefined)

(***************************************************************************)
(* Client-side reductions of the legacy Manager.                           *)
(***************************************************************************)
NEGATIVE_KEYWORDS == <<
    <<"b", "a", "d">>,
    <<"t", "e", "r", "r", "i", "b", "l", "e">>,
    <<"a", "w", "f", "u", "l">>,
    <<"h", "a", "t", "e">>,
    <<"d", "i", "s", "l", "i", "k", "e">>,
    <<"p", "r", "o", "b", "l", "e", "m">>,
    <<"i", "s", "s", "u", "e">>,
    <<"s", "c", "a", "m">>,
    <<"r", "e", "f", "u", "n", "d">>,
    <<"b", "r", "o", "k", "e", "n">> >>

UpperCase == <<"A", "B", "D", "E", "K", "N", "O", "R">>
LowerCase == <<"a", "b", "d", "e", "k", "n", "o", "r">>
ToLowerChar(c) ==
    IF \E i \in DOMAIN UpperCase : UpperCase[i] = c
    THEN LowerCase[CHOOSE i \in DOMAIN UpperCase : UpperCase[i] = c]
    ELSE c
\* String.prototype.toLowerCase
ToLowerCase(cs) == [i \in DOMAIN cs |-> ToLowerChar(cs[i])]
\* String.prototype.includes
Includes(text, kw) ==
    \E i \in 0..(Len(text) - Len(kw)) : SubSeq(text, i + 1, i + Len(kw)) = kw

\* o?.k
OptGet(o, k) == IF o = Undefined THEN Undefined ELSE Get(o, k)

\* mutant: the message is matched without lower-casing it
IsNegative_caseSensitive(comment) ==
    LET msg == Get(comment, "message")
    IN /\ msg # Undefined
       /\ msg.cs # <<>>
       /\ \E i \in DOMAIN NEGATIVE_KEYWORDS : Includes(msg.cs, NEGATIVE_KEYWORDS[i])

IsNegative(comment) ==
    LET msg == Get(comment, "message")
    IN /\ msg # Undefined
       /\ msg.cs # <<>>
       /\ \E i \in DOMAIN NEGATIVE_KEYWORDS :
              Includes(ToLowerCase(msg.cs), NEGATIVE_KEYWORDS[i])

\* (comments.data ?? []).filter(...)
filterNegativeComments(comments) ==
    LET data == Coalesce(Get(comments, "data"), Arr(<<>>))
    IN Arr(SelectSeq(data.a, IsNegative))

\* the author ids of the comments that have one, in comment order
AuthorIds(a) ==
    LET HasAuthor(c) == Truthy(OptGet(Get(c, "from"), "id"))
        kept == SelectSeq(a, HasAuthor)
    IN [i \in DOMAIN kept |-> Get(Get(kept[i], "from"), "id").s]

\* keys of the counter Map, in insertion order
RECURSIVE FirstSeen(_)
FirstSeen(ids) ==
    IF ids = <<>> THEN <<>>
    ELSE LET rest == FirstSeen(SubSeq(ids, 1, Len(ids) - 1))
             last == ids[Len(ids)]
         IN IF last \in Range(rest) THEN rest ELSE Append(rest, last)

CountOf(id, ids) == Cardinality({i \in DOMAIN ids : ids[i] = id})

\* mutant: an entry is placed before the entries of equal count
RECURSIVE InsertByCount_tiesReversed(_, _)
InsertByCount_tiesReversed(sorted, e) ==
    IF sorted = <<>> THEN <<e>>
    ELSE IF Head(sorted).count > e.count
         THEN <<Head(sorted)>> \o InsertByCount_tiesReversed(Tail(sorted), e)
         ELSE <<e>> \o sorted

\* Array.prototype.sort((a, b) => b.count - a.count): stable, by count descending
RECURSIVE InsertByCount(_, _)
InsertByCount(sorted, e) ==
    IF sorted = <<>> THEN <<e>>
    ELSE IF Head(sorted).count >= e.count
         THEN <<Head(sorted)>> \o InsertByCount(Tail(sorted), e)
         ELSE <<e>> \o sorted
RECURSIVE SortByCountDesc(_)
SortByCountDesc(es) ==
    IF es = <<>> THEN <<>>
    ELSE InsertByCount(SortByCountDesc(SubSeq(es, 1, Len(es) - 1)), es[Len(es)])

\* the reduction of getPostTopCommenters on the fetched comments
TopCommenters(comments) ==
    LET data == Coalesce(Get(comments, "data"), Arr(<<>>))
        ids == AuthorIds(data.a)
        keys == FirstSeen(ids)
    IN SortByCountDesc([i \in DOMAIN keys |->
                           [user_id |-> keys[i], count |-> CountOf(keys[i], ids)]])

(***************************************************************************)
(* A Manager method in execution: what it does when called (MgrStart) and  *)
(* when the client answers the request it awaits (MgrResume).              *)
(***************************************************************************)
Call(m, a) == [m |-> m, a |-> a]
NoCall == Call("", <<>>)
Arg(call, i) == IF i <= Len(call.a) THEN call.a[i] ELSE Undefined

NoRequest == Request("", "", Undefined, Undefined)
OutRequest(req) == [kind |-> "request", req |-> req, v |-> Undefined, err |-> ""]
OutReturn(v) == [kind |-> "return", req |-> NoRequest, v |-> v, err |-> ""]
OutThrow(e) == [kind |-> "throw", req |-> NoRequest, v |-> Undefined, err |-> e]

LegacyMethods == {
    "postToFacebook", "replyToComment", "getPagePosts", "getPostComments",
    "deletePost", "deleteComment", "filterNegativeComments", "getNumberOfComments",
    "getNumberOfLikes", "getPostInsights", "getPostImpressionsUnique", "getPostClicks",
    "getPostReactionsLikeTotal", "getPostReactionsLoveTotal", "getPostReactionsWowTotal",
    "getPostReactionsHahaTotal", "getPostReactionsSorryTotal",
    "getPostReactionsAngerTotal", "getPostTopCommenters", "postImageToFacebook",
    "sendDmToUser", "updatePost", "schedulePost", "getPageFanCount",
    "getPostShareCount", "batchRequest" }

ConsolidatedMethods == {
    "postToFacebook", "postImageToFacebook", "postVideoToFacebook",
    "postReelToFacebook", "updatePost", "deletePost", "getPagePosts",
    "getPostComments", "replyToComment", "deleteComment", "getInsights",
    "getPageInfo", "sendDmToUser", "batchRequest" }

Methods(gen) == IF gen = "legacy" THEN LegacyMethods ELSE ConsolidatedMethods

\* the metric list each single-metric method of the legacy Manager passes to getInsights
MetricsOf(m) ==
    CASE m = "getPostInsights" ->
            <<"post_impressions_unique", "post_clicks", "post_reactions_like_total",
              "post_reactions_love_total", "post_reactions_wow_total",
              "post_reactions_haha_total", "post_reactions_sorry_total",
              "post_reactions_anger_total">>
      [] m = "getPostImpressionsUnique" -> <<"post_impressions_unique">>
      [] m = "getPostClicks" -> <<"post_clicks">>
      [] m = "getPostReactionsLikeTotal" -> <<"post_reactions_like_total">>
      [] m = "getPostReactionsLoveTotal" -> <<"post_reactions_love_total">>
      [] m = "getPostReactionsWowTotal" -> <<"post_reactions_wow_total">>
      [] m = "getPostReactionsHahaTotal" -> <<"post_reactions_haha_total">>
      [] m = "getPostReactionsSorryTotal" -> <<"post_reactions_sorry_total">>
      [] m = "getPostReactionsAngerTotal" -> <<"post_reactions_anger_total">>
InsightMethods == {
    "getPostInsights", "getPostImpressionsUnique", "getPostClicks",
    "getPostReactionsLikeTotal", "getPostReactionsLoveTotal", "getPostReactionsWowTotal",
    "getPostReactionsHahaTotal", "getPostReactionsSorryTotal",
    "getPostReactionsAngerTotal" }

\* the call of a method up to its first await (or its return, when it awaits nothing)
MgrStart(gen, pageId, c) ==
    CASE c.m = "postToFacebook" ->
            OutRequest(postToFacebook(pageId, Arg(c, 1), Arg(c, 2)))
      [] c.m = "replyToComment" -> OutRequest(replyToComment(Arg(c, 1), Arg(c, 2)))
      [] c.m = "getPagePosts" ->
            OutRequest(IF gen = "legacy"
                       THEN getPagePostsLegacy(pageId, Arg(c, 1), Arg(c, 2))
                       ELSE getPagePosts(pageId, Arg(c, 1), Arg(c, 2), Arg(c, 3)))
      [] c.m = "getPostComments" ->
            OutRequest(IF gen = "legacy"
                       THEN getPostCommentsLegacy(Arg(c, 1), Arg(c, 2), Arg(c, 3))
                       ELSE getPostComments(Arg(c, 1), Arg(c, 2), Arg(c, 3), Arg(c, 4)))
      [] c.m = "deletePost" -> OutRequest(deletePost(Arg(c, 1)))
      [] c.m = "deleteComment" -> OutRequest(deleteComment(Arg(c, 1)))
      [] c.m = "filterNegativeComments" -> OutReturn(filterNegativeComments(Arg(c, 1)))
      [] c.m \in {"getNumberOfComments", "getPostTopCommenters"} ->
            OutRequest(getPostCommentsLegacy(Arg(c, 1), Undefined, Undefined))
      [] c.m = "getNumberOfLikes" -> OutRequest(getNumberOfLikesRequest(Arg(c, 1)))
      [] c.m \in InsightMethods ->
            OutRequest(getInsightsLegacy(Arg(c, 1),
                Arr([i \in DOMAIN MetricsOf(c.m) |-> Str(MetricsOf(c.m)[i])])))
      [] c.m = "getInsights" -> OutRequest(getInsights(Arg(c, 1), Arg(c, 2)))
      [] c.m = "postImageToFacebook" ->
            OutRequest(postImageToFacebook(pageId, Arg(c, 1), Arg(c, 2)))
      [] c.m = "postVideoToFacebook" ->
            OutRequest(postVideoToFacebook(pageId, Arg(c, 1), Arg(c, 2), Arg(c, 3)))
      [] c.m = "postReelToFacebook" -> OutRequest(postReelStartRequest(pageId))
      [] c.m = "sendDmToUser" -> OutRequest(sendDmToUser(Arg(c, 1), Arg(c, 2)))
      [] c.m = "updatePost" -> OutRequest(updatePost(Arg(c, 1), Arg(c, 2)))
      [] c.m = "schedulePost" -> OutRequest(schedulePost(pageId, Arg(c, 1), Arg(c, 2)))
      [] c.m = "getPageFanCount" -> OutRequest(getPageFanCountRequest(pageId))
      [] c.m = "getPostShareCount" -> OutRequest(getPostShareCountRequest(Arg(c, 1)))
      [] c.m = "getPageInfo" -> OutRequest(getPageInfo(pageId, Arg(c, 1)))
      [] c.m = "batchRequest" -> OutRequest(batchRequest(Arg(c, 1), Arg(c, 2)))

\* mutant: the reel flow stops after the start request and returns its answer
postReelAfterStart_noVideoRequest(pageId, c, initResponse) ==
    IF ~Truthy(Get(initResponse, "video_id"))
    THEN OutThrow("Failed to initialize Reel upload")
    ELSE OutReturn(initResponse)

\* mutant: the video request refers to the video the start request created
postReelAfterStart_usesVideoId(pageId, c, initResponse) ==
    IF ~Truthy(Get(initResponse, "video_id"))
    THEN OutThrow("Failed to initialize Reel upload")
    ELSE OutRequest(
            Request("POST", pageId \o "/videos",
                    Obj([file_url |-> Arg(c, 1),
                         description |-> IF Truthy(Arg(c, 2)) THEN Arg(c, 2)
                                         ELSE Undefined,
                         title |-> Str("Reel"),
                         video_id |-> Get(initResponse, "video_id")]), Undefined))

\* postReelToFacebook after the answer to its start request
postReelAfterStart(pageId, c, initResponse) ==
    IF ~Truthy(Get(initResponse, "video_id"))
    THEN OutThrow("Failed to initialize Reel upload")
    ELSE OutRequest(postVideoToFacebook(pageId, Arg(c, 1), Arg(c, 2), Str("Reel")))

\* the continuation of method c after the answer to its n-th request
\* the rest of a method once the request it awaited has succeeded
MgrAfterAnswer(gen, pageId, c, n, resp) ==
         CASE c.m = "postReelToFacebook" /\ n = 1 ->
                postReelAfterStart(pageId, c, resp.body)
           [] c.m = "getNumberOfComments" ->
                IF Get(resp.body, "data") = Undefined THEN OutThrow("TypeError")
                ELSE OutReturn(Num(Len(Get(resp.body, "data").a)))
           [] c.m = "getNumberOfLikes" ->
                OutReturn(Coalesce(
                    OptGet(OptGet(Get(resp.body, "likes"), "summary"), "total_count"),
                    Num(0)))
           [] c.m = "getPageFanCount" ->
                OutReturn(Coalesce(Get(resp.body, "fan_count"), Num(0)))
           [] c.m = "getPostShareCount" ->
                OutReturn(Coalesce(OptGet(Get(resp.body, "shares"), "count"), Num(0)))
           [] c.m = "getPostTopCommenters" ->
                OutReturn(Arr(TopCommenters(resp.body)))
           [] OTHER -> OutReturn(resp.body)

\* mutant: the derived counts answer 0 when their request fails
MgrResume_failureAsZero(gen, pageId, c, n, resp) ==
    IF ~resp.ok
    THEN IF c.m \in {"getNumberOfComments", "getNumberOfLikes", "getPageFanCount",
                     "getPostShareCount"}
         THEN OutReturn(Num(0))
         ELSE OutThrow(resp.err)
    ELSE MgrAfterAnswer(gen, pageId, c, n, resp)

\* an awaited request that rejects makes the method reject with the same error
MgrResume(gen, pageId, c, n, resp) ==
    IF ~resp.ok THEN OutThrow(resp.err)
    ELSE MgrAfterAnswer(gen, pageId, c, n, resp)

(***************************************************************************)
(* The tool registries.                                                    *)
(***************************************************************************)
\* mutant: the handler of fb_get_page_fan_count is left out of the handlers object
legacyHandlerNames_orphanSchema ==
    SelectSeq(SchemaNames("legacy"), LAMBDA n : n # "fb_get_page_fan_count")

\* keys of the handlers object of the legacy registry, in declared order
legacyHandlerNames == <<
    "fb_post_to_facebook", "fb_reply_to_comment", "fb_get_page_posts",
    "fb_get_post_comments", "fb_delete_post", "fb_delete_comment",
    "fb_delete_comment_from_post", "fb_filter_negative_comments",
    "fb_get_number_of_comments", "fb_get_number_of_likes", "fb_get_post_insights",
    "fb_get_post_impressions_unique", "fb_get_post_clicks",
    "fb_get_post_reactions_like_total", "fb_get_post_reactions_love_total",
    "fb_get_post_reactions_wow_total", "fb_get_post_reactions_haha_total",
    "fb_get_post_reactions_sorry_total", "fb_get_post_reactions_anger_total",
    "fb_get_post_top_commenters", "fb_post_image_to_facebook", "fb_send_dm_to_user",
    "fb_update_post", "fb_schedule_post", "fb_get_page_fan_count",
    "fb_get_post_share_count", "fb_batch_request" >>

\* keys of the handlers object of the consolidated registry, in declared order
handlerNames == <<
    "fb_create_post", "fb_update_post", "fb_delete_post", "fb_get_posts",
    "fb_get_comments", "fb_reply_comment", "fb_delete_comment", "fb_get_insights",
    "fb_get_page_info", "fb_send_message", "fb_batch" >>

HandlerNames(gen) == IF gen = "legacy" THEN legacyHandlerNames ELSE handlerNames

\* the Manager method each single-post_id legacy tool forwards to
PostIdMethod(tool) ==
    CASE tool = "fb_delete_post" -> "deletePost"
      [] tool = "fb_get_number_of_comments" -> "getNumberOfComments"
      [] tool = "fb_get_number_of_likes" -> "getNumberOfLikes"
      [] tool = "fb_get_post_insights" -> "getPostInsights"
      [] tool = "fb_get_post_impressions_unique" -> "getPostImpressionsUnique"
      [] tool = "fb_get_post_clicks" -> "getPostClicks"
      [] tool = "fb_get_post_reactions_like_total" -> "getPostReactionsLikeTotal"
      [] tool = "fb_get_post_reactions_love_total" -> "getPostReactionsLoveTotal"
      [] tool = "fb_get_post_reactions_wow_total" -> "getPostReactionsWowTotal"
      [] tool = "fb_get_post_reactions_haha_total" -> "getPostReactionsHahaTotal"
      [] tool = "fb_get_post_reactions_sorry_total" -> "getPostReactionsSorryTotal"
      [] tool = "fb_get_post_reactions_anger_total" -> "getPostReactionsAngerTotal"
      [] tool = "fb_get_post_top_commenters" -> "getPostTopCommenters"
      [] tool = "fb_get_post_share_count" -> "getPostShareCount"

\* whether the handler parses its arguments before it calls the Manager
LegacyHandlerParses(tool) == tool # "fb_get_page_fan_count"

\* the Manager calls a legacy handler makes with the parsed arguments p
LegacyHandlerCalls(tool, p) ==
    CASE tool = "fb_post_to_facebook" ->
            <<Call("postToFacebook", <<Get(p, "message")>>)>>
      [] tool = "fb_reply_to_comment" ->
            <<Call("replyToComment", <<Get(p, "comment_id"), Get(p, "message")>>)>>
      [] tool = "fb_get_page_posts" ->
            <<Call("getPagePosts", <<Get(p, "limit"), Get(p, "after")>>)>>
      [] tool = "fb_get_post_comments" ->
            <<Call("getPostComments",
                   <<Get(p, "post_id"), Get(p, "limit"), Get(p, "after")>>)>>
      [] tool \in {"fb_delete_comment", "fb_delete_comment_from_post"} ->
            <<Call("deleteComment", <<Get(p, "comment_id")>>)>>
      [] tool = "fb_filter_negative_comments" ->
            <<Call("filterNegativeComments", <<Get(p, "comments")>>)>>
      [] tool = "fb_post_image_to_facebook" ->
            <<Call("postImageToFacebook", <<Get(p, "image_url"), Get(p, "caption")>>)>>
      [] tool = "fb_send_dm_to_user" ->
            <<Call("sendDmToUser", <<Get(p, "user_id"), Get(p, "message")>>)>>
      [] tool = "fb_update_post" ->
            <<Call("updatePost", <<Get(p, "post_id"), Get(p, "new_message")>>)>>
      [] tool = "fb_schedule_post" ->
            <<Call("schedulePost", <<Get(p, "message"), Get(p, "publish_time")>>)>>
      [] tool = "fb_get_page_fan_count" -> <<Call("getPageFanCount", <<>>)>>
      [] tool = "fb_batch_request" ->
            <<Call("batchRequest", <<Get(p, "operations"), Get(p, "include_headers")>>)>>
      [] OTHER -> <<Call(PostIdMethod(tool), <<Get(p, "post_id")>>)>>

\* mutant: the image branch does not return, so the text path runs as well
fb_create_post_fallthrough(p) ==
    (IF Truthy(Get(p, "image_url"))
     THEN <<Call("postImageToFacebook",
                 <<Get(p, "image_url"), Coalesce(Get(p, "message"), Str(""))>>)>>
     ELSE <<>>)
    \o <<Call("postToFacebook",
              <<Get(p, "message"),
                Obj([link |-> Get(p, "link"),
                     place |-> Get(p, "place"),
                     published |-> Get(p, "published"),
                     scheduled_publish_time |-> Get(p, "scheduled_publish_time")])>>)>>

\* mutant: the image field is ignored and the text path is always taken
fb_create_post_imageIgnored(p) ==
    <<Call("postToFacebook",
           <<Get(p, "message"),
             Obj([link |-> Get(p, "link"),
                  place |-> Get(p, "place"),
                  published |-> Get(p, "published"),
                  scheduled_publish_time |-> Get(p, "scheduled_publish_time")])>>)>>

\* handlers.fb_create_post after parsing: the image path or the text path
fb_create_post(p) ==
    IF Truthy(Get(p, "image_url"))
    THEN <<Call("postImageToFacebook",
                <<Get(p, "image_url"), Coalesce(Get(p, "message"), Str(""))>>)>>
    ELSE <<Call("postToFacebook",
                <<Get(p, "message"),
                  Obj([link |-> Get(p, "link"),
                       place |-> Get(p, "place"),
                       published |-> Get(p, "published"),
                       scheduled_publish_time |-> Get(p, "scheduled_publish_time")])>>)>>

\* the Manager calls a consolidated handler makes with the parsed arguments p
HandlerCalls(tool, p) ==
    CASE tool = "fb_create_post" -> fb_create_post(p)
      [] tool = "fb_update_post" ->
            <<Call("updatePost", <<Get(p, "post_id"), Get(p, "message")>>)>>
      [] tool = "fb_delete_post" -> <<Call("deletePost", <<Get(p, "post_id")>>)>>
      [] tool = "fb_get_posts" ->
            <<Call("getPagePosts",
                   <<Get(p, "limit"), Get(p, "after"), Get(p, "fields")>>)>>
      [] tool = "fb_get_comments" ->
            <<Call("getPostComments",
                   <<Get(p, "post_id"), Get(p, "limit"), Get(p, "after"),
                     Get(p, "include_summary")>>)>>
      [] tool = "fb_reply_comment" ->
            <<Call("replyToComment", <<Get(p, "comment_id"), Get(p, "message")>>)>>
      [] tool = "fb_delete_comment" ->
            <<Call("deleteComment", <<Get(p, "comment_id")>>)>>
      [] tool = "fb_get_insights" ->
            <<Call("getInsights", <<Get(p, "post_id"), Get(p, "metrics")>>)>>
      [] tool = "fb_get_page_info" -> <<Call("getPageInfo", <<Get(p, "fields")>>)>>
      [] tool = "fb_send_message" ->
            <<Call("sendDmToUser", <<Get(p, "user_id"), Get(p, "message")>>)>>
      [] tool = "fb_batch" ->
            <<Call("batchRequest", <<Get(p, "operations"), Get(p, "include_headers")>>)>>

\* one handler run on raw arguments: a validation error, or the parsed arguments
\* and the Manager calls made with them
RunHandler(gen, tool, raw) ==
    IF gen = "legacy" /\ ~LegacyHandlerParses(tool)
    THEN [ok |-> TRUE, parsed |-> Undefined, issues |-> {},
          calls |-> LegacyHandlerCalls(tool, Undefined)]
    ELSE LET r == SchemaParse(gen, tool, raw)
         IN IF ~r.ok
            THEN [ok |-> FALSE, parsed |-> Undefined, issues |-> r.issues, calls |-> <<>>]
            ELSE [ok |-> TRUE, parsed |-> r.v, issues |-> {},
                  calls |-> IF gen = "legacy" THEN LegacyHandlerCalls(tool, r.v)
                            ELSE HandlerCalls(tool, r.v)]

\* Object.keys(toolSchemas).map(name => ({ name, inputSchema })) and the handlers
BuildRegistry(gen) ==
    [gen |-> gen,
     definitions |-> [i \in DOMAIN Catalog(gen) |->
                         [name |-> Catalog(gen)[i].name,
                          inputSchema |-> Catalog(gen)[i].shape]],
     handlers |-> HandlerNames(gen)]

(***************************************************************************)
(* The AI-SDK tool sets (createAiSdkTools): one tool per schema, built by  *)
(* buildTool with the schema as its parameters; the SDK validates the      *)
(* arguments against the parameters and hands the validated value to       *)
(* execute.                                                                *)
(***************************************************************************)
\* keys of the object createAiSdkTools returns (legacy), in declared order
legacyAiSdkToolNames == <<
    "fb_post_to_facebook", "fb_reply_to_comment", "fb_get_page_posts",
    "fb_get_post_comments", "fb_delete_post", "fb_delete_comment",
    "fb_delete_comment_from_post", "fb_filter_negative_comments",
    "fb_get_number_of_comments", "fb_get_number_of_likes", "fb_get_post_insights",
    "fb_get_post_impressions_unique", "fb_get_post_clicks",
    "fb_get_post_reactions_like_total", "fb_get_post_reactions_love_total",
    "fb_get_post_reactions_wow_total", "fb_get_post_reactions_haha_total",
    "fb_get_post_reactions_sorry_total", "fb_get_post_reactions_anger_total",
    "fb_get_post_top_commenters", "fb_post_image_to_facebook", "fb_send_dm_to_user",
    "fb_update_post", "fb_schedule_post", "fb_get_page_fan_count",
    "fb_get_post_share_count", "fb_batch_request" >>

\* keys of the object createAiSdkTools returns (consolidated), in declared order
aiSdkToolNames == <<
    "fb_create_post", "fb_update_post", "fb_delete_post", "fb_get_posts",
    "fb_get_comments", "fb_reply_comment", "fb_delete_comment", "fb_get_insights",
    "fb_get_page_info", "fb_send_message", "fb_batch" >>

AiSdkToolNames(gen) == IF gen = "legacy" THEN legacyAiSdkToolNames ELSE aiSdkToolNames

\* the Manager calls the execute function of a legacy AI-SDK tool makes
LegacyAiSdkExecute(tool, args) ==
    CASE tool = "fb_post_to_facebook" ->
            <<Call("postToFacebook",
                   <<Get(args, "message"),
                     Obj([link |-> Get(args, "link"),
                          place |-> Get(args, "place"),
                          published |-> Get(args, "published"),
                          scheduled_publish_time |->
                              Get(args, "scheduled_publish_time")])>>)>>
      [] tool = "fb_reply_to_comment" ->
            <<Call("replyToComment", <<Get(args, "comment_id"), Get(args, "message")>>)>>
      [] tool = "fb_get_page_posts" ->
            <<Call("getPagePosts", <<Get(args, "limit"), Get(args, "after")>>)>>
      [] tool = "fb_get_post_comments" ->
            <<Call("getPostComments",
                   <<Get(args, "post_id"), Get(args, "limit"), Get(args, "after")>>)>>
      [] tool = "fb_delete_post" -> <<Call("deletePost", <<Get(args, "post_id")>>)>>
      [] tool \in {"fb_delete_comment", "fb_delete_comment_from_post"} ->
            <<Call("deleteComment", <<Get(args, "comment_id")>>)>>
      [] tool = "fb_filter_negative_comments" ->
            <<Call("filterNegativeComments", <<Get(args, "comments")>>)>>
      [] tool = "fb_get_number_of_comments" ->
            <<Call("getNumberOfComments", <<Get(args, "post_id")>>)>>
      [] tool = "fb_get_number_of_likes" ->
            <<Call("getNumberOfLikes", <<Get(args, "post_id")>>)>>
      [] tool = "fb_get_post_insights" ->
            <<Call("getPostInsights", <<Get(args, "post_id")>>)>>
      [] tool = "fb_get_post_impressions_unique" ->
            <<Call("getPostImpressionsUnique", <<Get(args, "post_id")>>)>>
      [] tool = "fb_get_post_clicks" ->
            <<Call("getPostClicks", <<Get(args, "post_id")>>)>>
      [] tool = "fb_get_post_reactions_like_total" ->
            <<Call("getPostReactionsLikeTotal", <<Get(args, "post_id")>>)>>
      [] tool = "fb_get_post_reactions_love_total" ->
            <<Call("getPostReactionsLoveTotal", <<Get(args, "post_id")>>)>>
      [] tool = "fb_get_post_reactions_wow_total" ->
            <<Call("getPostReactionsWowTotal", <<Get(args, "post_id")>>)>>
      [] tool = "fb_get_post_reactions_haha_total" ->
            <<Call("getPostReactionsHahaTotal", <<Get(args, "post_id")>>)>>
      [] tool = "fb_get_post_reactions_sorry_total" ->
            <<Call("getPostReactionsSorryTotal", <<Get(args, "post_id")>>)>>
      [] tool = "fb_get_post_reactions_anger_total" ->
            <<Call("getPostReactionsAngerTotal", <<Get(args, "post_id")>>)>>
      [] tool = "fb_get_post_top_commenters" ->
            <<Call("getPostTopCommenters", <<Get(args, "post_id")>>)>>
      [] tool = "fb_post_image_to_facebook" ->
            <<Call("postImageToFacebook",
                   <<Get(args, "image_url"), Coalesce(Get(args, "caption"), Str(""))>>)>>
      [] tool = "fb_send_dm_to_user" ->
            <<Call("sendDmToUser", <<Get(args, "user_id"), Get(args, "message")>>)>>
      [] tool = "fb_update_post" ->
            <<Call("updatePost", <<Get(args, "post_id"), Get(args, "new_message")>>)>>
      [] tool = "fb_schedule_post" ->
            <<Call("schedulePost", <<Get(args, "message"), Get(args, "publish_time")>>)>>
      [] tool = "fb_get_page_fan_count" -> <<Call("getPageFanCount", <<>>)>>
      [] tool = "fb_get_post_share_count" ->
            <<Call("getPostShareCount", <<Get(args, "post_id")>>)>>
      [] tool = "fb_batch_request" ->
            <<Call("batchRequest",
                   <<Get(args, "operations"), Get(args, "include_headers")>>)>>

\* the Manager calls the execute function of a consolidated AI-SDK tool makes
AiSdkExecute(tool, args) ==
    CASE tool = "fb_create_post" ->
            IF Truthy(Get(args, "image_url"))
            THEN <<Call("postImageToFacebook",
                        <<Get(args, "image_url"),
                          Coalesce(Get(args, "message"), Str(""))>>)>>
            ELSE <<Call("postToFacebook",
                        <<Get(args, "message"),
                          Obj([link |-> Get(args, "link"),
                               place |-> Get(args, "place"),
                               published |-> Get(args, "published"),
                               scheduled_publish_time |->
                                   Get(args, "scheduled_publish_time")])>>)>>
      [] tool = "fb_update_post" ->
            <<Call("updatePost", <<Get(args, "post_id"), Get(args, "message")>>)>>
      [] tool = "fb_delete_post" -> <<Call("deletePost", <<Get(args, "post_id")>>)>>
      [] tool = "fb_get_posts" ->
            <<Call("getPagePosts",
                   <<Get(args, "limit"), Get(args, "after"), Get(args, "fields")>>)>>
      [] tool = "fb_get_comments" ->
            <<Call("getPostComments",
                   <<Get(args, "post_id"), Get(args, "limit"), Get(args, "after"),
                     Get(args, "include_summary")>>)>>
      [] tool = "fb_reply_comment" ->
            <<Call("replyToComment", <<Get(args, "comment_id"), Get(args, "message")>>)>>
      [] tool = "fb_delete_comment" ->
            <<Call("deleteComment", <<Get(args, "comment_id")>>)>>
      [] tool = "fb_get_insights" ->
            <<Call("getInsights", <<Get(args, "post_id"), Get(args, "metrics")>>)>>
      [] tool = "fb_get_page_info" -> <<Call("getPageInfo", <<Get(args, "fields")>>)>>
      [] tool = "fb_send_message" ->
            <<Call("sendDmToUser", <<Get(args, "user_id"), Get(args, "message")>>)>>
      [] tool = "fb_batch" ->
            <<Call("batchRequest",
                   <<Get(args, "operations"), Get(args, "include_headers")>>)>>

\* one AI-SDK tool run on raw arguments: a validation error of the parameters
\* schema, or the validated arguments and the Manager calls execute makes
RunTool(gen, tool, raw) ==
    LET r == SchemaParse(gen, tool, raw)
    IN IF ~r.ok
       THEN [ok |-> FALSE, parsed |-> Undefined, issues |-> r.issues, calls |-> <<>>]
       ELSE [ok |-> TRUE, parsed |-> r.v, issues |-> {},
             calls |-> IF gen = "legacy" THEN LegacyAiSdkExecute(tool, r.v)
                       ELSE AiSdkExecute(tool, r.v)]

(***************************************************************************)
(* Inputs: the raw arguments a dispatcher may hand to a handler, the typed *)
(* arguments of a direct Manager call, and the client's answers.           *)
(***************************************************************************)
\* longest list of batch operations enumerated exhaustively
MaxOps == 2
\* longest comment list in a client answer
MaxComments == 3

Generations == {"legacy", "consolidated"}

RECURSIVE Repeat(_, _)
Repeat(x, n) == IF n = 0 THEN <<>> ELSE <<x>> \o Repeat(x, n - 1)

SeqsUpTo(S, n) == UNION {[1..k -> S] : k \in 0..n}

LimitProbes == {-1, 0, 1, 2, 25, 99, 100, 101, 102}

BodyPlain == Rec(<<[k |-> <<"k">>, v |-> Text(<<"v">>)]>>)
BodySpecial ==
    Rec(<<[k |-> <<"a", "&">>, v |-> Text(<<"1", " ", "=">>)],
          [k |-> <<"b">>, v |-> Text(<<"%", "+", "/">>)]>>)
BodyEmpty == Rec(<<>>)
BodyBad == Rec(<<[k |-> <<"k">>, v |-> Num(1)]>>)

Op(method, url, body, name, omit) ==
    Obj([method |-> method, relative_url |-> url, body |-> body, name |-> name,
         omit_response_on_success |-> omit])
ValidOps == {
    Op(Str("GET"), Str("me"), Undefined, Undefined, Undefined),
    Op(Str("POST"), Str("me/feed"), BodySpecial, Str("first"), Bool(TRUE)),
    Op(Str("DELETE"), Str("p1"), BodyEmpty, Undefined, Bool(FALSE)),
    Op(Str("PATCH"), Str("p2"), BodyPlain, Undefined, Undefined) }
InvalidOps == {
    Op(Str("PUT"), Str("me"), Undefined, Undefined, Undefined),
    Op(Str("GET"), Str(""), Undefined, Undefined, Undefined),
    Op(Str("POST"), Str("me/feed"), BodyBad, Undefined, Undefined) }
\* operation lists: every short list, and lists around the 50-entry limit
LongOp == Op(Str("GET"), Str("me"), Undefined, Undefined, Undefined)
OpLists(ops) ==
    {Arr(a) : a \in SeqsUpTo(ops, MaxOps)}
        \cup {Arr(Repeat(LongOp, 50)), Arr(Repeat(LongOp, 51))}

User(id) == Obj([id |-> Str(id), name |-> Undefined])
Comment(id, message, from) ==
    Obj([id |-> Str(id), message |-> message, from |-> from, created_time |-> Undefined])
CommentCandidates == {
    Comment("c1", Text(<<"s", "o", " ", "B", "a", "D", "!">>), User("A")),
    Comment("c2", Text(<<"o", "k">>), User("B")),
    Comment("c3", Undefined, Undefined),
    Comment("c4", Text(<<>>), User("A")) }
CommentLists == SeqsUpTo(CommentCandidates, MaxComments)

\* raw values tried for a field of the given schema
RawValues(field, s) ==
    CASE s.kind = "string" -> {Undefined, Str(""), Str("x1"), Num(7)}
      [] s.kind = "url" -> {Undefined, Str("https://x/y.jpg"), Str("not-a-url")}
      [] s.kind = "int" ->
            IF s.hasMax
            THEN {Undefined, Frac(2), Str("10")} \cup {Num(n) : n \in LimitProbes}
            ELSE {Undefined, Num(0), Num(1735689600), Frac(2)}
      [] s.kind = "boolean" -> {Undefined, Bool(TRUE), Bool(FALSE), Str("yes")}
      [] s.kind = "comments" ->
            {Undefined, Obj([data |-> Undefined]), Str("x1"),
             Obj([data |-> Arr(<<Comment("", Undefined, Undefined)>>)])}
                \cup {Obj([data |-> Arr(a)]) : a \in CommentLists}
      [] s.kind = "operations" ->
            {Undefined, Str("x1")} \cup OpLists(ValidOps \cup InvalidOps)
      [] s.kind = "metrics" ->
            {Undefined, Arr(<<>>), Arr(<<Str("post_clicks")>>),
             Arr(<<Str("post_clicks"), Str("post_impressions_unique")>>),
             Arr(<<Str("bogus")>>), Str("post_clicks")}

RECURSIVE Fill(_, _)
Fill(keys, shape) ==
    IF keys = {} THEN {<<>>}
    ELSE LET k == CHOOSE x \in keys : TRUE
         IN {f @@ (k :> v) : f \in Fill(keys \ {k}, shape), v \in RawValues(k, shape[k])}

\* values that are not objects, as a dispatcher passes them when arguments are missing
NonObjects == {Undefined, Str("x1")}

RawArgs(gen, tool) ==
    NonObjects \cup {Obj(f) : f \in Fill(DOMAIN ShapeOf(gen, tool), ShapeOf(gen, tool))}

\* typed arguments of direct Manager calls
PostOptions ==
    {Undefined}
        \cup {Obj([link |-> l, place |-> Undefined, published |-> pb,
                   scheduled_publish_time |-> t]) :
                l \in {Undefined, Str("https://x")},
                pb \in {Undefined, Bool(TRUE), Bool(FALSE)},
                t \in {Undefined, Num(1735689600)}}

ManagerCalls(gen) ==
    LET id == Str("p1")
        msg == Str("hi")
        shared ==
            {Call("postToFacebook", <<msg, o>>) : o \in PostOptions}
            \cup {Call("replyToComment", <<id, msg>>), Call("deletePost", <<id>>),
                  Call("deleteComment", <<id>>), Call("updatePost", <<id, msg>>),
                  Call("sendDmToUser", <<id, msg>>)}
            \cup {Call("postImageToFacebook", <<Str("https://x/y.jpg"), c>>) :
                    c \in {Str(""), Str("cap")}}
            \cup {Call("batchRequest", <<ops, h>>) :
                    ops \in OpLists(ValidOps), h \in {Undefined, Bool(TRUE), Bool(FALSE)}}
        legacy ==
            {Call("getPagePosts", <<l, a>>) :
                l \in {Undefined, Num(1), Num(3)}, a \in {Undefined, Str("CURSOR")}}
            \cup {Call("getPostComments", <<id, l, a>>) :
                    l \in {Undefined, Num(10)}, a \in {Undefined, Str("CURSOR")}}
            \cup {Call(m, <<id>>) :
                    m \in InsightMethods \cup {"getNumberOfComments", "getNumberOfLikes",
                                               "getPostTopCommenters", "getPostShareCount"}}
            \cup {Call("filterNegativeComments", <<Obj([data |-> d])>>) :
                    d \in {Undefined} \cup {Arr(a) : a \in CommentLists}}
            \cup {Call("schedulePost", <<msg, Num(1735689600)>>),
                  Call("getPageFanCount", <<>>)}
        consolidated ==
            {Call("getPagePosts", <<l, a, f>>) :
                l \in {Undefined, Num(1), Num(3)}, a \in {Undefined, Str("CURSOR")},
                f \in {Undefined, Str("id")}}
            \cup {Call("getPostComments", <<id, l, a, sm>>) :
                    l \in {Undefined, Num(10)}, a \in {Undefined, Str("CURSOR")},
                    sm \in {Undefined, Bool(TRUE), Bool(FALSE)}}
            \cup {Call("getInsights", <<id, ms>>) :
                    ms \in {Undefined, Arr(<<>>), Arr(<<Str("post_clicks")>>),
                            Arr(<<Str("post_clicks"), Str("post_impressions_unique")>>)}}
            \cup {Call("getPageInfo", <<f>>) : f \in {Undefined, Str("id,name")}}
            \cup {Call("postVideoToFacebook", <<Str("https://x/v.mp4"), d, t>>) :
                    d \in {Undefined, Str(""), Str("cap")}, t \in {Undefined, Str("T")}}
            \cup {Call("postReelToFacebook", <<Str("https://x/v.mp4"), c>>) :
                    c \in {Undefined, Str("cap")}}
    IN shared \cup (IF gen = "legacy" THEN legacy ELSE consolidated)

\* answers of the client collaborator to a request
RemoteFailure == [ok |-> FALSE, body |-> Undefined, err |-> "RemoteRequestError"]
NetworkFailure == [ok |-> FALSE, body |-> Undefined, err |-> "NetworkError"]
Success(body) == [ok |-> TRUE, body |-> body, err |-> ""]
IsListRequest(req) ==
    \E pre \in {"p1", "x1", "page1"} :
        req.endpoint \in {pre \o "/comments", pre \o "/posts"}
\* the answer of the remote API to a comments request of limit L for a post that
\* has total comments: the first min(total, L) of them, and a next link when more
\* remain; total is carried along to state properties, the Manager cannot read it
CommentsPage(total, limit) ==
    [ok |-> TRUE, err |-> "", total |-> total,
     body |-> Obj([data |-> Arr(Repeat(Comment("c2", Text(<<"o", "k">>), User("B")),
                                        IF total < limit THEN total ELSE limit)),
                   paging |-> IF total > limit
                              THEN Obj([cursors |-> Obj([after |-> Str("CURSOR")]),
                                        next |-> Str("https://next")])
                              ELSE Undefined])]
IsCommentsRequest(req) ==
    \E pre \in {"p1", "x1"} : req.endpoint = pre \o "/comments"
CommentsPages(req) ==
    IF IsCommentsRequest(req) /\ req.method = "GET"
    THEN {CommentsPage(t, Get(req.params, "limit").n) :
            t \in {0, 1, Get(req.params, "limit").n, Get(req.params, "limit").n + 1}}
    ELSE {}
\* further answers to the start request of a reel upload: another video, and an
\* empty video_id
ReelStarts(req) ==
    IF req.method = "POST" /\ req.endpoint = "page1/video_reels"
    THEN {Success(Obj([video_id |-> Str("v2"), upload_url |-> Str("https://up2")])),
          Success(Obj([video_id |-> Str(""), upload_url |-> Str("https://up")]))}
    ELSE {}
Responses(req) ==
    {RemoteFailure, NetworkFailure, Success(Obj(<<>>))}
        \cup CommentsPages(req)
        \cup ReelStarts(req)
        \cup (IF IsListRequest(req)
              THEN {Success(Obj([data |-> Arr(a), paging |-> pg])) :
                        a \in CommentLists,
                        pg \in {Undefined,
                                Obj([cursors |-> Obj([after |-> Str("CURSOR")])])}}
              ELSE {Success(Obj([id |-> Str("x1")])),
                    Success(Obj([video_id |-> Str("v1"), upload_url |-> Str("https://up")])),
                    Success(Obj([likes |-> Obj([summary |-> Obj([total_count |-> Num(3)])])])),
                    Success(Obj([likes |-> Obj([summary |-> Undefined])])),
                    Success(Obj([shares |-> Obj([count |-> Num(2)])])),
                    Success(Obj([fan_count |-> Num(5)]))})

(***************************************************************************)
(* The state machine.                                                      *)
(***************************************************************************)
NoRegistry == [gen |-> "none", definitions |-> <<>>, handlers |-> <<>>]
NoInvocation == [entry |-> "none", tool |-> "", raw |-> Undefined, parsed |-> Undefined]
NoResult == [kind |-> "none", v |-> Undefined, issues |-> {}, err |-> ""]
ValueResult(v) == [kind |-> "value", v |-> v, issues |-> {}, err |-> ""]
ErrorResult(kind, e) == [kind |-> kind, v |-> Undefined, issues |-> {}, err |-> e]

\* new FacebookManager(client, pageId): the two readonly fields (and which of the
\* two FacebookManager classes it is)
NewManager(gen) == [gen |-> gen, client |-> "client", pageId |-> "page1"]

Init ==
    /\ manager \in {NewManager(g) : g \in Generations}
    /\ registry = NoRegistry
    /\ phase = "idle"
    /\ cur = NoInvocation
    /\ mcalls = <<>>
    /\ active = NoCall
    /\ log = <<>>
    /\ answers = <<>>
    /\ result = NoResult

\* createToolRegistry(manager)
createToolRegistry ==
    /\ phase = "idle"
    /\ registry = NoRegistry
    /\ registry' = BuildRegistry(manager.gen)
    /\ UNCHANGED <<manager, phase, cur, mcalls, active, log, result, answers>>

\* the Manager method c is called: it runs up to its first await or to its end
StartCall(c) ==
    LET out == MgrStart(manager.gen, manager.pageId, c)
    IN /\ active' = c
       /\ IF out.kind = "request"
          THEN /\ phase' = "awaiting"
               /\ log' = <<out.req>>
               /\ result' = NoResult
          ELSE /\ phase' = "done"
               /\ log' = <<>>
               /\ result' = ValueResult(out.v)

\* the handler of tool runs on raw, for an invocation that asked for name
Handle(entry, name, tool, raw) ==
    /\ phase = "idle"
    /\ registry # NoRegistry
    /\ LET h == RunHandler(registry.gen, tool, raw)
       IN /\ cur' = [entry |-> entry, tool |-> name, raw |-> raw, parsed |-> h.parsed]
          /\ mcalls' = h.calls
          /\ IF ~h.ok
             THEN /\ phase' = "done"
                  /\ active' = NoCall
                  /\ log' = <<>>
                  /\ result' = [kind |-> "validation_error", v |-> Undefined,
                                issues |-> h.issues, err |-> "ZodError"]
             ELSE IF h.calls = <<>>
             THEN /\ phase' = "done"
                  /\ active' = NoCall
                  /\ log' = <<>>
                  /\ result' = ValueResult(Undefined)
             ELSE StartCall(h.calls[1])
    /\ UNCHANGED <<manager, registry, answers>>

\* registry.handlers[tool](raw)
Invoke(tool, raw) == Handle("handler", tool, tool, raw)

\* createAiSdkTools(manager)[tool].execute, reached through the SDK with raw
ExecuteTool(tool, raw) ==
    /\ phase = "idle"
    /\ \E h \in {RunTool(manager.gen, tool, raw)} :
          /\ cur' = [entry |-> "ai-sdk", tool |-> tool, raw |-> raw, parsed |-> h.parsed]
          /\ mcalls' = h.calls
          /\ IF ~h.ok
             THEN /\ phase' = "done"
                  /\ active' = NoCall
                  /\ log' = <<>>
                  /\ result' = [kind |-> "validation_error", v |-> Undefined,
                                issues |-> h.issues, err |-> "ZodError"]
             ELSE StartCall(h.calls[1])
    /\ UNCHANGED <<manager, registry, answers>>

\* mutant: a name without handler is served by the first handler
Lookup_fallback(handlers, name) ==
    IF \E i \in DOMAIN handlers : handlers[i] = name THEN name ELSE handlers[1]

\* handlers[name]: the handler registered under name, "" when there is none
Lookup(handlers, name) ==
    IF \E i \in DOMAIN handlers : handlers[i] = name THEN name ELSE ""

\* a dispatcher is asked for name: it looks the handler up and runs it; without a
\* handler the invocation fails and nothing else happens
Dispatch(name, raw) ==
    /\ phase = "idle"
    /\ registry # NoRegistry
    /\ IF Lookup(registry.handlers, name) = ""
       THEN /\ cur' = [entry |-> "dispatch", tool |-> name, raw |-> raw,
                       parsed |-> Undefined]
            /\ phase' = "done"
            /\ mcalls' = <<>>
            /\ active' = NoCall
            /\ log' = <<>>
            /\ result' = ErrorResult("unknown_tool", "UnknownTool")
            /\ UNCHANGED <<manager, registry, answers>>
       ELSE Handle("dispatch", name, Lookup(registry.handlers, name), raw)

\* a Manager method called directly, with typed arguments
CallManager(c) ==
    /\ phase = "idle"
    /\ cur' = [entry |-> "manager", tool |-> "", raw |-> Undefined, parsed |-> Undefined]
    /\ mcalls' = <<c>>
    /\ StartCall(c)
    /\ UNCHANGED <<manager, registry, answers>>

\* the client settles the request in flight and the awaiting method continues
Respond(resp) ==
    /\ phase = "awaiting"
    /\ answers' = Append(answers, resp)
    /\ LET out == MgrResume(manager.gen, manager.pageId, active, Len(log), resp)
       IN CASE out.kind = "request" ->
                  /\ log' = Append(log, out.req)
                  /\ UNCHANGED <<phase, result>>
            [] out.kind = "return" ->
                  /\ phase' = "done"
                  /\ result' = ValueResult(out.v)
                  /\ UNCHANGED log
            [] out.kind = "throw" ->
                  /\ phase' = "done"
                  /\ result' = ErrorResult(IF resp.ok THEN "error" ELSE "request_error",
                                           out.err)
                  /\ UNCHANGED log
    /\ UNCHANGED <<manager, registry, cur, mcalls, active>>

\* the invocation has settled; the dispatcher is free for the next one
Return ==
    /\ phase = "done"
    /\ phase' = "idle"
    /\ cur' = NoInvocation
    /\ mcalls' = <<>>
    /\ active' = NoCall
    /\ log' = <<>>
    /\ answers' = <<>>
    /\ result' = NoResult
    /\ UNCHANGED <<manager, registry>>

InvokeAny ==
    /\ phase = "idle"
    /\ \E i \in DOMAIN registry.handlers :
          \E raw \in RawArgs(registry.gen, registry.handlers[i]) :
              Invoke(registry.handlers[i], raw)
\* names asked of the dispatcher: unknown to both registries, known to one only,
\* known to both
DispatchProbes ==
    {"fb_unknown", "fb_create_post", "fb_post_to_facebook", "fb_delete_post"}
DispatchAny ==
    /\ phase = "idle"
    /\ \E name \in DispatchProbes :
          \E raw \in {Undefined, Obj([post_id |-> Str("x1"), message |-> Str("x1")])} :
              Dispatch(name, raw)
ExecuteToolAny ==
    /\ phase = "idle"
    /\ \E i \in DOMAIN AiSdkToolNames(manager.gen) :
          \E raw \in RawArgs(manager.gen, AiSdkToolNames(manager.gen)[i]) :
              ExecuteTool(AiSdkToolNames(manager.gen)[i], raw)
CallManagerAny ==
    /\ phase = "idle"
    /\ \E c \in ManagerCalls(manager.gen) : CallManager(c)
RespondAny ==
    /\ phase = "awaiting"
    /\ \E resp \in Responses(log[Len(log)]) : Respond(resp)

Next ==
    \/ createToolRegistry
    \/ InvokeAny
    \/ ExecuteToolAny
    \/ DispatchAny
    \/ CallManagerAny
    \/ RespondAny
    \/ Return

Spec == Init /\ [][Next]_vars

(***************************************************************************)
(* Concurrent invocations on one Manager.  Every invocation has its own    *)
(* frame (the locals of the async handler and method it runs); the frames  *)
(* interleave at their awaits.  Here the per-invocation variables are      *)
(* functions of the invocation slot.                                       *)
(***************************************************************************)
\* number of invocations that may be in flight together
MaxInFlight == 2
Slots == 1..MaxInFlight

\* what an invocation asks for: a tool with raw arguments, or a Manager call
ToolInvocation(tool, raw) == [entry |-> "handler", tool |-> tool, raw |-> raw, call |-> NoCall]
CallInvocation(c) == [entry |-> "manager", tool |-> "", raw |-> Undefined, call |-> c]
ConcurrentInvocations(gen) ==
    IF gen = "legacy"
    THEN {ToolInvocation("fb_get_post_top_commenters", Obj([post_id |-> Str("p1")])),
          ToolInvocation("fb_get_number_of_comments", Obj([post_id |-> Str("x1")])),
          ToolInvocation("fb_get_page_posts", Obj([limit |-> Num(0)])),
          CallInvocation(Call("getPageFanCount", <<>>))}
    ELSE {ToolInvocation("fb_get_comments", Obj([post_id |-> Str("p1")])),
          ToolInvocation("fb_create_post", Obj([message |-> Str("x1")])),
          ToolInvocation("fb_delete_post", Undefined),
          CallInvocation(Call("postReelToFacebook", <<Str("https://x/v.mp4"), Str("cap")>>))}
ConcurrentResponses ==
    {RemoteFailure,
     Success(Obj([id |-> Str("x1"), video_id |-> Str("v1"), fan_count |-> Num(5)])),
     Success(Obj([data |-> Arr(<<Comment("c2", Text(<<"o", "k">>), User("B")),
                                Comment("c1", Text(<<"b", "a", "d">>), User("A")),
                                Comment("c4", Text(<<>>), User("A"))>>)]))}

\* the handler part of an invocation: validation and the Manager calls made
HandlerOutcome(reg, inv) ==
    IF inv.entry = "handler" THEN RunHandler(reg.gen, inv.tool, inv.raw)
    ELSE [ok |-> TRUE, parsed |-> Undefined, issues |-> {}, calls |-> <<inv.call>>]
\* the Manager method called by the handler, run up to its first await
FirstStep(mgr, h) ==
    IF h.calls = <<>> THEN OutReturn(Undefined)
    ELSE MgrStart(mgr.gen, mgr.pageId, h.calls[1])

\* mutant: the running call is kept in one place shared by all invocations
Frame_shared(s) ==
    LET t == CHOOSE t \in Slots : phase[t] = "awaiting"
    IN [call |-> active[t], n |-> Len(log[t])]

\* the locals a method resumes with when the request of invocation s settles
Frame(s) == [call |-> active[s], n |-> Len(log[s])]

InitConcurrent ==
    /\ manager \in {NewManager(g) : g \in Generations}
    /\ registry = BuildRegistry(manager.gen)
    /\ phase = [s \in Slots |-> "idle"]
    /\ cur = [s \in Slots |-> NoInvocation]
    /\ mcalls = [s \in Slots |-> <<>>]
    /\ active = [s \in Slots |-> NoCall]
    /\ log = [s \in Slots |-> <<>>]
    /\ answers = [s \in Slots |-> <<>>]
    /\ result = [s \in Slots |-> NoResult]

StartConcurrent(s, inv) ==
    /\ phase[s] = "idle"
    /\ \E h \in {HandlerOutcome(registry, inv)} :
       \E out \in {FirstStep(manager, h)} :
          /\ cur' = [cur EXCEPT ![s] = [entry |-> inv.entry, tool |-> inv.tool,
                                        raw |-> inv.raw, parsed |-> h.parsed]]
          /\ mcalls' = [mcalls EXCEPT ![s] = h.calls]
          /\ active' = [active EXCEPT ![s] = IF h.calls = <<>> THEN NoCall ELSE h.calls[1]]
          /\ IF ~h.ok
             THEN /\ phase' = [phase EXCEPT ![s] = "done"]
                  /\ log' = [log EXCEPT ![s] = <<>>]
                  /\ result' = [result EXCEPT ![s] =
                                   [kind |-> "validation_error", v |-> Undefined,
                                    issues |-> h.issues, err |-> "ZodError"]]
             ELSE IF out.kind = "request"
             THEN /\ phase' = [phase EXCEPT ![s] = "awaiting"]
                  /\ log' = [log EXCEPT ![s] = <<out.req>>]
                  /\ result' = [result EXCEPT ![s] = NoResult]
             ELSE /\ phase' = [phase EXCEPT ![s] = "done"]
                  /\ log' = [log EXCEPT ![s] = <<>>]
                  /\ result' = [result EXCEPT ![s] = ValueResult(out.v)]
    /\ UNCHANGED <<manager, registry, answers>>

RespondConcurrent(s, resp) ==
    /\ phase[s] = "awaiting"
    /\ answers' = [answers EXCEPT ![s] = Append(@, resp)]
    /\ \E fr \in {Frame(s)} :
       \E out \in {MgrResume(manager.gen, manager.pageId, fr.call, fr.n, resp)} :
          CASE out.kind = "request" ->
                  /\ log' = [log EXCEPT ![s] = Append(@, out.req)]
                  /\ UNCHANGED <<phase, result>>
            [] out.kind = "return" ->
                  /\ phase' = [phase EXCEPT ![s] = "done"]
                  /\ result' = [result EXCEPT ![s] = ValueResult(out.v)]
                  /\ UNCHANGED log
            [] out.kind = "throw" ->
                  /\ phase' = [phase EXCEPT ![s] = "done"]
                  /\ result' = [result EXCEPT ![s] =
                                   ErrorResult(IF resp.ok THEN "error" ELSE "request_error",
                                               out.err)]
                  /\ UNCHANGED log
    /\ UNCHANGED <<manager, registry, cur, mcalls, active>>

ReturnConcurrent(s) ==
    /\ phase[s] = "done"
    /\ phase' = [phase EXCEPT ![s] = "idle"]
    /\ cur' = [cur EXCEPT ![s] = NoInvocation]
    /\ mcalls' = [mcalls EXCEPT ![s] = <<>>]
    /\ active' = [active EXCEPT ![s] = NoCall]
    /\ log' = [log EXCEPT ![s] = <<>>]
    /\ answers' = [answers EXCEPT ![s] = <<>>]
    /\ result' = [result EXCEPT ![s] = NoResult]
    /\ UNCHANGED <<manager, registry>>

StartAnyConcurrent ==
    \E s \in Slots : \E inv \in ConcurrentInvocations(manager.gen) : StartConcurrent(s, inv)
RespondAnyConcurrent ==
    \E s \in Slots : \E resp \in ConcurrentResponses : RespondConcurrent(s, resp)
ReturnAnyConcurrent == \E s \in Slots : ReturnConcurrent(s)

NextConcurrent ==
    \/ StartAnyConcurrent
    \/ RespondAnyConcurrent
    \/ ReturnAnyConcurrent

SpecConcurrent == InitConcurrent /\ [][NextConcurrent]_vars

(***************************************************************************)
(* Properties.                                                             *)
(***************************************************************************)
HandlerRan == cur.entry = "handler" /\ phase \in {"awaiting", "done"}
HandlerAccepted == HandlerRan /\ result.kind # "validation_error"
Occurrences(n, seq) == Cardinality({i \in DOMAIN seq : seq[i] = n})
DefinitionNames == [i \in DOMAIN registry.definitions |-> registry.definitions[i].name]

\* C1: whenever the raw arguments of a handler invocation fail the tool's schema,
\* the invocation ends in a validation error, no Manager method has been invoked
\* and no request has been issued.
C1_ValidationGatesEveryHandler ==
    (HandlerRan /\ ~SchemaParse(registry.gen, cur.tool, cur.raw).ok)
        => /\ result.kind = "validation_error"
           /\ mcalls = <<>>
           /\ log = <<>>

\* C2: in the registry createToolRegistry returns, the names of the definitions
\* and the keys of the handlers are the same set, and every name occurs exactly
\* once among the definitions and exactly once among the handlers.
C2_RegistryBijection ==
    registry # NoRegistry
        => /\ Range(DefinitionNames) = Range(registry.handlers)
           /\ \A n \in Range(DefinitionNames) \cup Range(registry.handlers) :
                 /\ Occurrences(n, DefinitionNames) = 1
                 /\ Occurrences(n, registry.handlers) = 1
C2_Witness ==
    /\ registry.gen = "legacy"
    /\ Len(registry.definitions) = 27
    /\ "fb_get_page_fan_count" \in Range(registry.handlers)

\* an argument handed to the Manager that stems from the validated object: one of
\* its field values, an object made of its field values, or the "" that stands in
\* for an absent message
ValidatedArg(a, parsed) ==
    \/ a \in Range(parsed.f)
    \/ a = Str("") /\ Get(parsed, "message") = Undefined
    \/ /\ IsObject(a)
       /\ \A k \in DOMAIN a.f : k \in DOMAIN parsed.f /\ a.f[k] = parsed.f[k]

\* C3: a handler invocation whose arguments pass validation invokes exactly one
\* Manager method, exactly once, and every argument of that call stems from the
\* validated (defaulted) object.
C3_ExactlyOneManagerCall ==
    HandlerAccepted
        => /\ Len(mcalls) = 1
           /\ mcalls[1].m \in Methods(registry.gen)
           /\ active = mcalls[1]
           /\ \A i \in DOMAIN mcalls[1].a : ValidatedArg(mcalls[1].a[i], cur.parsed)
C3_Witness ==
    /\ HandlerAccepted
    /\ cur.tool = "fb_create_post"
    /\ Len(mcalls) = 1
    /\ mcalls[1] = Call("postImageToFacebook", <<Str("https://x/y.jpg"), Str("")>>)
    /\ Get(cur.parsed, "published") = Bool(TRUE)

\* the number of requests the running Manager method issues in all
ExpectedRequests ==
    CASE active.m = "filterNegativeComments" -> 0
      [] active.m = "postReelToFacebook" ->
            IF answers # <<>> /\ answers[1].ok /\ Truthy(Get(answers[1].body, "video_id"))
            THEN 2 ELSE 1
      [] OTHER -> 1

\* C4 (as stated): every Manager operation that has finished has issued exactly
\* one request to the client.
C4_ExactlyOneRequest ==
    (phase = "done" /\ mcalls # <<>>) => Len(log) = 1

\* C4 (amended): a finished Manager operation has issued exactly one request,
\* except filterNegativeComments, which issues none, and postReelToFacebook, which
\* issues two when its start request is answered with a video_id (one otherwise);
\* an operation that awaits an answer has issued at least one request and no more
\* than that number.
C4_RequestsPerOperation ==
    /\ (phase = "done" /\ mcalls # <<>>) => Len(log) = ExpectedRequests
    /\ phase = "awaiting" => Len(log) >= 1 /\ Len(log) <= ExpectedRequests
C4_Witness ==
    /\ phase = "done"
    /\ active.m = "postReelToFacebook"
    /\ result.kind = "value"
    /\ Len(log) = 2
    /\ log[1].endpoint = "page1/video_reels"
    /\ log[2].endpoint = "page1/videos"

\* C5: an accepted fb_create_post invocation issues exactly one request: when the
\* validated arguments carry an image_url, a POST to {page}/photos with url =
\* image_url and caption = message ("" when message is absent); otherwise a POST to
\* {page}/feed with the message and the link, place, published and
\* scheduled_publish_time of the validated arguments.
C5_CreatePostDispatch ==
    (HandlerAccepted /\ cur.tool = "fb_create_post")
        => LET p == cur.parsed
               q == log[1].params
           IN /\ Len(log) = 1
              /\ log[1].method = "POST"
              /\ IF Get(p, "image_url") # Undefined
                 THEN /\ log[1].endpoint = manager.pageId \o "/photos"
                      /\ mcalls[1].m = "postImageToFacebook"
                      /\ Get(q, "url") = Get(p, "image_url")
                      /\ Get(q, "caption") = IF Get(p, "message") = Undefined
                                             THEN Str("") ELSE Get(p, "message")
                      /\ Get(q, "message") = Undefined
                 ELSE /\ log[1].endpoint = manager.pageId \o "/feed"
                      /\ mcalls[1].m = "postToFacebook"
                      /\ Get(q, "url") = Undefined
                      /\ \A k \in {"message", "link", "place", "published",
                                   "scheduled_publish_time"} : Get(q, k) = Get(p, k)
C5_Witness ==
    /\ HandlerAccepted
    /\ cur.tool = "fb_create_post"
    /\ Len(log) = 1
    /\ log[1].endpoint = "page1/photos"
    /\ Get(log[1].params, "caption") = Str("x1")
    /\ Get(cur.raw, "link") = Str("https://x/y.jpg")

\* the argument object that carries the given fields and nothing else
OnlyFields(raw, f) ==
    /\ IsObject(raw)
    /\ \A k \in DOMAIN raw.f : raw.f[k] = (IF k \in DOMAIN f THEN f[k] ELSE Undefined)

\* C6: an fb_create_post invocation whose argument object has neither a message
\* nor an image_url ends in a validation error whatever its other fields are; a
\* message alone is accepted with published defaulted to true; an image_url alone
\* is accepted with no message.
C6_CreatePostNeedsContent ==
    (HandlerRan /\ cur.tool = "fb_create_post" /\ IsObject(cur.raw))
        => /\ (Get(cur.raw, "message") = Undefined /\ Get(cur.raw, "image_url") = Undefined)
                => (result.kind = "validation_error" /\ log = <<>>)
           /\ OnlyFields(cur.raw, [message |-> Str("x1")])
                => /\ result.kind # "validation_error"
                   /\ Get(cur.parsed, "message") = Str("x1")
                   /\ Get(cur.parsed, "published") = Bool(TRUE)
           /\ OnlyFields(cur.raw, [image_url |-> Str("https://x/y.jpg")])
                => /\ result.kind # "validation_error"
                   /\ Get(cur.parsed, "image_url") = Str("https://x/y.jpg")
                   /\ Get(cur.parsed, "message") = Undefined
C6_Witness ==
    /\ HandlerRan
    /\ cur.tool = "fb_create_post"
    /\ IsObject(cur.raw)
    /\ Get(cur.raw, "message") = Undefined
    /\ Get(cur.raw, "image_url") = Undefined
    /\ Get(cur.raw, "link") = Str("https://x/y.jpg")
    /\ Get(cur.raw, "published") = Bool(FALSE)
    /\ result.kind = "validation_error"

ListPostsTools == {"fb_get_page_posts", "fb_get_posts"}
LegacyListTools == {"fb_get_page_posts", "fb_get_post_comments"}

\* C7: a list-posts invocation with an argument object that has no fields set, and
\* a direct getPagePosts() call with no arguments, issue one GET to {page}/posts
\* with limit = 25 and no after value; every accepted list-posts invocation issues
\* one request whose after value is the one supplied.
C7_ListPostsDefaults ==
    /\ (HandlerRan /\ cur.tool \in ListPostsTools /\ OnlyFields(cur.raw, <<>>))
          => /\ result.kind # "validation_error"
             /\ Len(log) = 1
             /\ log[1].method = "GET"
             /\ log[1].endpoint = manager.pageId \o "/posts"
             /\ Get(log[1].params, "limit") = Num(25)
             /\ Get(log[1].params, "after") = Undefined
    /\ (HandlerAccepted /\ cur.tool \in ListPostsTools)
          => /\ Len(log) = 1
             /\ Get(log[1].params, "after") = Get(cur.raw, "after")
    /\ (cur.entry = "manager" /\ phase # "idle" /\ active.m = "getPagePosts")
          => /\ Len(log) = 1
             /\ log[1].method = "GET"
             /\ log[1].endpoint = manager.pageId \o "/posts"
             /\ Get(log[1].params, "after") = Arg(active, 2)
             /\ Arg(active, 1) = Undefined => Get(log[1].params, "limit") = Num(25)
C7_Witness ==
    /\ HandlerAccepted
    /\ cur.tool = "fb_get_page_posts"
    /\ Get(cur.raw, "limit") = Undefined
    /\ Get(cur.raw, "after") = Str("x1")
    /\ Get(log[1].params, "after") = Str("x1")
    /\ Get(log[1].params, "limit") = Num(25)

\* the limits the documentation allows
ValidLimits == {Num(n) : n \in 1..100}

\* C8: for the legacy list-posts and list-comments handlers, every limit in a request is
\* an integer in [1,100]; a supplied limit that is not such an integer ends in a
\* validation error with no request; an omitted limit is requested as 25.
C8_LimitWithinRange ==
    (HandlerRan /\ cur.tool \in LegacyListTools)
        => /\ \A i \in DOMAIN log : Get(log[i].params, "limit") \in ValidLimits
           /\ (IsObject(cur.raw) /\ Get(cur.raw, "limit") # Undefined
                  /\ Get(cur.raw, "limit") \notin ValidLimits)
                 => (result.kind = "validation_error" /\ log = <<>>)
           /\ (HandlerAccepted /\ Get(cur.raw, "limit") = Undefined)
                 => /\ Len(log) = 1
                    /\ Get(log[1].params, "limit") = Num(25)
C8_Witness ==
    /\ HandlerAccepted
    /\ cur.tool = "fb_get_post_comments"
    /\ Get(cur.raw, "limit") = Num(100)
    /\ Len(log) = 1
    /\ Get(log[1].params, "limit") = Num(100)
\* reading an application/x-www-form-urlencoded string back: the character a
\* %XY escape stands for
Unescape(h1, h2) ==
    CASE <<h1, h2>> = <<"2", "6">> -> "&"
      [] <<h1, h2>> = <<"3", "D">> -> "="
      [] <<h1, h2>> = <<"2", "5">> -> "%"
      [] <<h1, h2>> = <<"2", "B">> -> "+"
      [] <<h1, h2>> = <<"2", "F">> -> "/"
      [] OTHER -> "?"
RECURSIVE UrlDecode(_)
UrlDecode(cs) ==
    IF cs = <<>> THEN <<>>
    ELSE IF Head(cs) = "+" THEN <<" ">> \o UrlDecode(Tail(cs))
    ELSE IF Head(cs) = "%" /\ Len(cs) >= 3
         THEN <<Unescape(cs[2], cs[3])>> \o UrlDecode(SubSeq(cs, 4, Len(cs)))
    ELSE <<Head(cs)>> \o UrlDecode(Tail(cs))
\* position of the first sep in cs, Len(cs) + 1 when there is none
FirstIndex(cs, sep) ==
    IF \E i \in DOMAIN cs : cs[i] = sep
    THEN CHOOSE i \in DOMAIN cs : cs[i] = sep /\ \A j \in 1..(i - 1) : cs[j] # sep
    ELSE Len(cs) + 1
RECURSIVE Split(_, _)
Split(cs, sep) ==
    LET i == FirstIndex(cs, sep)
    IN IF i > Len(cs) THEN <<cs>>
       ELSE <<SubSeq(cs, 1, i - 1)>> \o Split(SubSeq(cs, i + 1, Len(cs)), sep)
\* the name/value pairs a form-encoded string stands for
ParseQuery(cs) ==
    IF cs = <<>> THEN <<>>
    ELSE LET parts == Split(cs, "&")
         IN [i \in DOMAIN parts |->
                LET e == FirstIndex(parts[i], "=")
                IN [k |-> UrlDecode(SubSeq(parts[i], 1, e - 1)),
                    v |-> Text(UrlDecode(SubSeq(parts[i], e + 1, Len(parts[i]))))]]

BatchRunning == phase # "idle" /\ mcalls # <<>> /\ active.m = "batchRequest"

\* C9: batchRequest with n operations issues a single POST to the root endpoint;
\* its batch parameter, parsed, has n sub-operations in the order supplied, each
\* with the method and relative_url of its operation and, when the operation has a
\* body, a body string that reads back as the body's name/value pairs (no body
\* otherwise); include_headers is the flag given, false when none is given.
C9_BatchEncoding ==
    BatchRunning
        => LET ops == Arg(active, 1).a
               flag == Arg(active, 2)
               sent == JsonParse(Get(log[1].params, "batch"))
           IN /\ Len(log) = 1
              /\ log[1].method = "POST"
              /\ log[1].endpoint = ""
              /\ Len(sent) = Len(ops)
              /\ \A i \in DOMAIN ops :
                    /\ sent[i].method = Get(ops[i], "method")
                    /\ sent[i].relative_url = Get(ops[i], "relative_url")
                    /\ IF Get(ops[i], "body") = Undefined
                       THEN "body" \notin DOMAIN sent[i]
                       ELSE /\ "body" \in DOMAIN sent[i]
                            /\ sent[i].body.t = "string"
                            /\ ParseQuery(sent[i].body.cs) = Get(ops[i], "body").kv
              /\ Get(log[1].params, "include_headers")
                    = (IF flag = Undefined THEN Bool(FALSE) ELSE flag)
C9_Witness ==
    /\ BatchRunning
    /\ Len(Arg(active, 1).a) = 2
    /\ Get(Arg(active, 1).a[1], "body") = BodySpecial
    /\ Get(Arg(active, 1).a[2], "body") = Undefined
    /\ Get(Arg(active, 1).a[1], "method") # Get(Arg(active, 1).a[2], "method")
    /\ Arg(active, 2) = Undefined
    /\ Len(JsonParse(Get(log[1].params, "batch"))) = 2

BatchTools == {"fb_batch_request", "fb_batch"}

\* C10: a batch tool invocation whose operation list has no entry or more than 50
\* entries ends in a validation error with no request, and every batch request
\* issued by a batch tool carries between 1 and 50 sub-operations.
C10_BatchListBounded ==
    (HandlerRan /\ cur.tool \in BatchTools)
        => /\ \A i \in DOMAIN log :
                Len(JsonParse(Get(log[i].params, "batch"))) \in 1..50
           /\ (IsObject(cur.raw) /\ Get(cur.raw, "operations").t = "array"
                  /\ Len(Get(cur.raw, "operations").a) \notin 1..50)
                 => (result.kind = "validation_error" /\ log = <<>>)

\* the 8 documented default metric names, comma-joined in their declared order
DocumentedMetricList ==
    "post_impressions_unique,post_clicks,post_reactions_like_total,"
    \o "post_reactions_love_total,post_reactions_wow_total,post_reactions_haha_total,"
    \o "post_reactions_sorry_total,post_reactions_anger_total"
\* a caller's list of one or two names, comma-joined in the caller's order
CallerMetricList(a) ==
    IF Len(a) = 1 THEN a[1].s ELSE a[1].s \o "," \o a[2].s
InsightsRunning ==
    phase # "idle" /\ mcalls # <<>> /\ active.m \in {"getInsights", "getPostInsights"}

\* C11: getInsights without a metric list (or with an empty one), and the legacy
\* getPostInsights, issue one GET to {post_id}/insights whose metric parameter is
\* the 8 default names comma-joined in declared order, with period = lifetime;
\* getInsights with a non-empty list sends that list comma-joined in the caller's
\* order.
C11_InsightsDefaultMetrics ==
    InsightsRunning
        => LET ms == IF active.m = "getInsights" THEN Arg(active, 2) ELSE Undefined
           IN /\ Len(log) = 1
              /\ log[1].method = "GET"
              /\ log[1].endpoint = Arg(active, 1).s \o "/insights"
              /\ Get(log[1].params, "period") = Str("lifetime")
              /\ IF ms = Undefined \/ ms.a = <<>>
                 THEN Get(log[1].params, "metric") = Str(DocumentedMetricList)
                 ELSE /\ Len(ms.a) <= 2
                      /\ Get(log[1].params, "metric") = Str(CallerMetricList(ms.a))
C11_Witness ==
    /\ HandlerAccepted
    /\ cur.tool = "fb_get_insights"
    /\ Get(cur.raw, "metrics") = Undefined
    /\ Len(log) = 1
    /\ log[1].endpoint = "x1/insights"
    /\ Get(log[1].params, "metric") = Str(DocumentedMetricList)

\* the comment has a message that, lower-cased, contains a negative keyword
MentionsNegativeKeyword(c) ==
    /\ Get(c, "message") # Undefined
    /\ \E kw \in Range(NEGATIVE_KEYWORDS) :
          \E i \in 1..Len(Get(c, "message").cs) :
             /\ i + Len(kw) - 1 <= Len(Get(c, "message").cs)
             /\ \A j \in 1..Len(kw) :
                   ToLowerChar(Get(c, "message").cs[i + j - 1]) = kw[j]
\* out holds exactly the elements of inp at the positions in keep, in inp's order
IsSelection(out, inp, keep) ==
    /\ Len(out) = Cardinality(keep)
    /\ \E f \in [DOMAIN out -> keep] :
          /\ \A i, j \in DOMAIN out : i < j => f[i] < f[j]
          /\ \A i \in DOMAIN out : out[i] = inp[f[i]]
FilterReturned ==
    phase = "done" /\ mcalls # <<>> /\ active.m = "filterNegativeComments"

FetchedComments ==
    IF Get(answers[1].body, "data") = Undefined THEN <<>>
    ELSE Get(answers[1].body, "data").a
HasAuthorId(c) ==
    /\ Get(c, "from") # Undefined
    /\ Get(Get(c, "from"), "id") \notin {Undefined, Str("")}
\* positions of the fetched comments written by the given commenter
CommentsBy(id) ==
    {i \in DOMAIN FetchedComments :
        HasAuthorId(FetchedComments[i]) /\ Get(Get(FetchedComments[i], "from"), "id").s = id}
FirstCommentBy(id) == CHOOSE i \in CommentsBy(id) : \A j \in CommentsBy(id) : i <= j
TopCommentersReturned ==
    /\ phase = "done" /\ mcalls # <<>> /\ active.m = "getPostTopCommenters"
    /\ answers # <<>> /\ answers[1].ok

\* C13: getPostTopCommenters returns one {user_id, count} pair per distinct
\* commenter id of the fetched comments (comments without an author id are
\* ignored), count being that commenter's number of comments; the pairs are in
\* descending order of count, and pairs of equal count are in the order in which
\* their commenters first appear.
C13_TopCommenters ==
    TopCommentersReturned
        => LET out == result.v.a
           IN /\ result.kind = "value"
              /\ \A i \in DOMAIN out : CommentsBy(out[i].user_id) # {}
              /\ \A c \in DOMAIN FetchedComments :
                    HasAuthorId(FetchedComments[c])
                        => \E i \in DOMAIN out :
                              out[i].user_id = Get(Get(FetchedComments[c], "from"), "id").s
              /\ \A i, j \in DOMAIN out : out[i].user_id = out[j].user_id => i = j
              /\ \A i \in DOMAIN out : out[i].count = Cardinality(CommentsBy(out[i].user_id))
              /\ \A i, j \in DOMAIN out : i < j => out[i].count >= out[j].count
              /\ \A i, j \in DOMAIN out :
                    (i < j /\ out[i].count = out[j].count)
                        => FirstCommentBy(out[i].user_id) < FirstCommentBy(out[j].user_id)
C13_Witness ==
    /\ TopCommentersReturned
    /\ Len(FetchedComments) = 3
    /\ Get(FetchedComments[1], "id") = Str("c2")
    /\ result.v.a = <<[user_id |-> "A", count |-> 2], [user_id |-> "B", count |-> 1]>>
C13_WitnessTie ==
    /\ TopCommentersReturned
    /\ Len(FetchedComments) = 3
    /\ Get(FetchedComments[3], "id") = Str("c3")
    /\ result.v.a = <<[user_id |-> "B", count |-> 1], [user_id |-> "A", count |-> 1]>>

LastAnswer == answers[Len(answers)]
CountMethods ==
    {"getNumberOfComments", "getNumberOfLikes", "getPageFanCount", "getPostShareCount"}

\* C14: when the client fails a request, the Manager operation that issued it has
\* ended with that same failure and has issued no request after the failed one;
\* no request before it had failed, and the operation has no value as result (a
\* derived count is not 0).
C14_FailurePropagates ==
    (answers # <<>> /\ ~LastAnswer.ok)
        => /\ phase = "done"
           /\ result.kind = "request_error"
           /\ result.err = LastAnswer.err
           /\ result.v = Undefined
           /\ Len(log) = Len(answers)
           /\ \A k \in 1..(Len(answers) - 1) : answers[k].ok
C14_Witness ==
    /\ answers = <<NetworkFailure>>
    /\ active.m = "getPageFanCount"
    /\ cur.entry = "handler"
    /\ result.err = "NetworkError"
    /\ Len(log) = 1
C14_WitnessReel ==
    /\ Len(answers) = 2
    /\ answers[2] = RemoteFailure
    /\ active.m = "postReelToFacebook"
    /\ result.err = "RemoteRequestError"

\* C15: getNumberOfComments, answered by the remote API for a post that has a
\* given number of comments, returns that number.
C15_NumberOfCommentsIsTotal ==
    (/\ phase = "done" /\ mcalls # <<>> /\ active.m = "getNumberOfComments"
     /\ answers # <<>> /\ "total" \in DOMAIN answers[1])
        => result = ValueResult(Num(answers[1].total))

PostOptionFields == {"link", "place", "published", "scheduled_publish_time"}

\* C16: an accepted fb_post_to_facebook invocation issues one POST to {page}/feed
\* that carries the message and every optional field (link, place, published,
\* scheduled_publish_time) the caller supplied.
C16_TextPostKeepsOptions ==
    (HandlerAccepted /\ cur.tool = "fb_post_to_facebook")
        => /\ Len(log) = 1
           /\ log[1].method = "POST"
           /\ log[1].endpoint = manager.pageId \o "/feed"
           /\ Get(log[1].params, "message") = Get(cur.raw, "message")
           /\ \A k \in PostOptionFields :
                 Get(cur.raw, k) # Undefined
                    => Get(log[1].params, k) = Get(cur.raw, k)

\* the closed sets of the documentation
KnownMethods == {"GET", "POST", "DELETE", "PATCH"}
KnownMetrics ==
    {"post_impressions_unique", "post_clicks", "post_reactions_like_total",
     "post_reactions_love_total", "post_reactions_wow_total", "post_reactions_haha_total",
     "post_reactions_sorry_total", "post_reactions_anger_total"}
\* metric parameters made of known names only: one name, two names, or the default
KnownMetricParams ==
    {Str(a) : a \in KnownMetrics}
        \cup {Str(a \o "," \o b) : a, b \in KnownMetrics}
        \cup {Str(DocumentedMetricList)}
IsInsightsRequest(req) ==
    \E pre \in {"p1", "x1"} : req.endpoint = pre \o "/insights"
HasForeignMethod(raw) ==
    /\ IsObject(raw)
    /\ Get(raw, "operations").t = "array"
    /\ \E i \in DOMAIN Get(raw, "operations").a :
          Get(Get(raw, "operations").a[i], "method") \notin {Str(m) : m \in KnownMethods}
HasForeignMetric(raw) ==
    /\ IsObject(raw)
    /\ Get(raw, "metrics").t = "array"
    /\ \E i \in DOMAIN Get(raw, "metrics").a :
          Get(raw, "metrics").a[i] \notin {Str(m) : m \in KnownMetrics}

\* C17: a batch tool invocation with a sub-operation whose method is not GET,
\* POST, DELETE or PATCH, and an fb_get_insights invocation naming a metric outside
\* the known set, end in a validation error with no request; every batch request
\* issued through a handler has only those methods, and every insights request
\* issued through a handler names only known metrics.
C17_EnumeratedFieldsClosed ==
    HandlerRan
        => /\ (cur.tool \in BatchTools /\ HasForeignMethod(cur.raw))
                 => (result.kind = "validation_error" /\ log = <<>>)
           /\ (cur.tool = "fb_get_insights" /\ HasForeignMetric(cur.raw))
                 => (result.kind = "validation_error" /\ log = <<>>)
           /\ \A i \in {k \in DOMAIN log : log[k].params # Undefined} :
                 /\ Get(log[i].params, "batch") # Undefined
                       => \A j \in DOMAIN JsonParse(Get(log[i].params, "batch")) :
                             JsonParse(Get(log[i].params, "batch"))[j].method
                                \in {Str(m) : m \in KnownMethods}
                 /\ IsInsightsRequest(log[i])
                       => Get(log[i].params, "metric") \in KnownMetricParams
C17_Witness ==
    /\ HandlerRan
    /\ cur.tool = "fb_batch_request"
    /\ HasForeignMethod(cur.raw)
    /\ Len(Get(cur.raw, "operations").a) = 2
    /\ Get(Get(cur.raw, "operations").a[1], "method") = Str("GET")
    /\ result.kind = "validation_error"

\* C18: for every schema of the legacy catalog and every raw argument that it
\* accepts, validating the validated (defaulted) value again succeeds and returns
\* that same value.
C18_ValidationIdempotent ==
    (HandlerRan /\ registry.gen = "legacy")
        => LET once == SchemaParse("legacy", cur.tool, cur.raw)
           IN once.ok
                 => /\ SchemaParse("legacy", cur.tool, once.v).ok
                    /\ SchemaParse("legacy", cur.tool, once.v).v = once.v
C18_Witness ==
    /\ HandlerAccepted
    /\ registry.gen = "legacy"
    /\ cur.tool = "fb_get_post_comments"
    /\ Get(cur.raw, "limit") = Undefined
    /\ Get(cur.parsed, "limit") = Num(25)
    /\ SchemaParse("legacy", cur.tool, cur.parsed).ok
    /\ SchemaParse("legacy", cur.tool, cur.parsed).v = cur.parsed

AbsentDispatched ==
    cur.entry = "dispatch" /\ \A i \in DOMAIN registry.handlers : registry.handlers[i] # cur.tool

\* C19: an invocation that asked for a name absent from the registry has failed
\* with no handler run, no Manager call and no request, and has left Manager and
\* registry as they were; and whenever the dispatcher is free for the next
\* invocation, nothing of an earlier invocation remains, so the next one runs as
\* it would have without the failed one.
C19_UnknownToolFailsAlone ==
    /\ AbsentDispatched
          => /\ phase = "done"
             /\ result.kind = "unknown_tool"
             /\ cur.parsed = Undefined
             /\ mcalls = <<>> /\ active = NoCall
             /\ log = <<>> /\ answers = <<>>
             /\ registry = BuildRegistry(manager.gen)
             /\ manager.pageId = "page1"
    /\ phase = "idle"
          => /\ cur = NoInvocation
             /\ mcalls = <<>> /\ active = NoCall
             /\ log = <<>> /\ answers = <<>>
             /\ result = NoResult
             /\ registry \in {NoRegistry, BuildRegistry(manager.gen)}
C19_Witness ==
    /\ AbsentDispatched
    /\ registry.gen = "legacy"
    /\ cur.tool = "fb_create_post"
    /\ cur.raw # Undefined
    /\ result.kind = "unknown_tool"

\* the requests and the outcome of the Manager call c when it runs alone and the
\* client gives the answers ans, one after the other
RECURSIVE RunAlone(_, _, _)
RunAlone(mgr, c, ans) ==
    IF ans = <<>>
    THEN LET out == MgrStart(mgr.gen, mgr.pageId, c)
         IN [log |-> IF out.kind = "request" THEN <<out.req>> ELSE <<>>, out |-> out]
    ELSE LET before == RunAlone(mgr, c, SubSeq(ans, 1, Len(ans) - 1))
             out == MgrResume(mgr.gen, mgr.pageId, c, Len(before.log), ans[Len(ans)])
         IN [log |-> IF out.kind = "request" THEN Append(before.log, out.req)
                     ELSE before.log,
             out |-> out]
\* slot s holds what its invocation would hold had it run alone with its answers
AsIfAlone(s) ==
    IF mcalls[s] = <<>>
    THEN log[s] = <<>> /\ answers[s] = <<>> /\ result[s].kind \in {"validation_error", "value"}
    ELSE LET alone == RunAlone(manager, mcalls[s][1], answers[s])
         IN /\ log[s] = alone.log
            /\ CASE alone.out.kind = "request" -> phase[s] = "awaiting" /\ result[s] = NoResult
                 [] alone.out.kind = "return" ->
                        phase[s] = "done" /\ result[s] = ValueResult(alone.out.v)
                 [] alone.out.kind = "throw" ->
                        /\ phase[s] = "done"
                        /\ result[s].kind \in {"error", "request_error"}
                        /\ result[s].err = alone.out.err

\* C20: in every interleaving of invocations running concurrently on one Manager,
\* the requests and the result of each invocation are those it would have had
\* running alone with the same client answers, and no step changes the Manager
\* (its client reference and page id) or the registry.
C20_InvocationsIndependent ==
    /\ [](\A s \in Slots : phase[s] # "idle" => AsIfAlone(s))
    /\ [][manager' = manager /\ registry' = registry]_vars
C20_Witness ==
    /\ phase[1] = "awaiting" /\ phase[2] = "done"
    /\ active[1].m \in {"getPostTopCommenters", "postReelToFacebook"}
    /\ active[2].m \in {"getNumberOfComments", "getPostComments"}
    /\ Len(answers[1]) + Len(log[1]) >= 2
    /\ result[2].kind = "value"

\* the value at the end of a property path of an answer, Undefined when any step
\* of the path is absent
RECURSIVE Dig(_, _)
Dig(v, path) ==
    IF path = <<>> THEN v
    ELSE IF ~(v.t = "object" /\ "f" \in DOMAIN v) THEN Undefined
    ELSE Dig(IF Head(path) \in DOMAIN v.f THEN v.f[Head(path)] ELSE Undefined,
             Tail(path))
CountedField(m) ==
    CASE m = "getNumberOfComments" -> <<"data">>
      [] m = "getNumberOfLikes" -> <<"likes", "summary", "total_count">>
      [] m = "getPostShareCount" -> <<"shares", "count">>
CountedFieldAbsent ==
    /\ phase = "done"
    /\ active.m \in {"getNumberOfComments", "getNumberOfLikes", "getPostShareCount"}
    /\ answers # <<>>
    /\ LastAnswer.ok
    /\ Dig(LastAnswer.body, CountedField(active.m)) = Undefined

\* C21: the comment, like and share count operations return 0 when the request
\* succeeded and the counted field (data, likes.summary.total_count, shares.count)
\* is absent from the answer.
C21_CountsDefaultToZero ==
    CountedFieldAbsent => result = ValueResult(Num(0))

DocumentedPostFields == Str("id,message,created_time")

\* C22: an accepted list-posts invocation requests the fields value of its
\* validated arguments, and id,message,created_time when they hold none; a direct
\* getPagePosts call of the consolidated Manager does the same with its fields
\* argument, and the legacy Manager, which takes none, requests the default.
C22_ListPostsFields ==
    /\ (HandlerAccepted /\ cur.tool \in ListPostsTools)
          => /\ Len(log) = 1
             /\ Get(log[1].params, "fields") =
                   (IF Get(cur.parsed, "fields") # Undefined
                    THEN Get(cur.parsed, "fields") ELSE DocumentedPostFields)
             /\ cur.tool = "fb_get_posts"
                   => Get(cur.parsed, "fields") = Get(cur.raw, "fields")
    /\ (cur.entry = "manager" /\ phase # "idle" /\ active.m = "getPagePosts")
          => /\ Len(log) = 1
             /\ Get(log[1].params, "fields") =
                   (IF manager.gen = "consolidated" /\ Arg(active, 3) # Undefined
                    THEN Arg(active, 3) ELSE DocumentedPostFields)
C22_Witness ==
    /\ HandlerAccepted
    /\ cur.tool = "fb_get_posts"
    /\ Get(cur.raw, "fields") = Str("x1")
    /\ Get(log[1].params, "fields") = Str("x1")
C22_WitnessDefault ==
    /\ HandlerAccepted
    /\ cur.tool = "fb_get_posts"
    /\ Get(cur.raw, "fields") = Undefined
    /\ Get(log[1].params, "fields") = Str("id,message,created_time")
C22_WitnessEmpty ==
    /\ HandlerAccepted
    /\ cur.tool = "fb_get_posts"
    /\ Get(cur.raw, "fields") = Str("")
    /\ Get(log[1].params, "fields") = Str("")

ListCommentsTools == {"fb_get_post_comments", "fb_get_comments"}
SummaryRequested(v) == v = Bool(TRUE)
SummarySent(req) ==
    IF Get(req.params, "summary") = Str("true") THEN "true"
    ELSE IF Get(req.params, "summary") = Undefined THEN "none"
    ELSE "other"

\* C23: an accepted list-comments invocation, and a direct getPostComments call,
\* issue one GET to {post}/comments that carries summary = "true" when
\* include_summary is true and no summary value at all otherwise.
C23_SummaryOnlyOnRequest ==
    /\ (HandlerAccepted /\ cur.tool \in ListCommentsTools)
          => /\ Len(log) = 1
             /\ log[1].method = "GET"
             /\ log[1].endpoint = Get(cur.raw, "post_id").s \o "/comments"
             /\ SummarySent(log[1]) =
                   (IF SummaryRequested(Get(cur.raw, "include_summary"))
                    THEN "true" ELSE "none")
    /\ (cur.entry = "manager" /\ phase # "idle" /\ active.m = "getPostComments")
          => /\ Len(log) = 1
             /\ SummarySent(log[1]) =
                   (IF manager.gen = "consolidated" /\ SummaryRequested(Arg(active, 4))
                    THEN "true" ELSE "none")
C23_Witness ==
    /\ HandlerAccepted
    /\ cur.tool = "fb_get_comments"
    /\ Get(cur.raw, "include_summary") = Bool(TRUE)
    /\ Get(log[1].params, "summary") = Str("true")
C23_WitnessFalse ==
    /\ HandlerAccepted
    /\ cur.tool = "fb_get_comments"
    /\ Get(cur.raw, "include_summary") = Bool(FALSE)
    /\ Get(log[1].params, "summary") = Undefined

(***************************************************************************)
(* The pagination walk of testOperations: getPagePosts(1), then, when the  *)
(* first page has a post and an after cursor, getPagePosts(1, cursor).     *)
(* phase follows the position of the script: walk_start, walk_page1 and    *)
(* walk_page2 (awaiting the first and the second page), walk_done (the     *)
(* pagination block is left, normally or through the catch).               *)
(***************************************************************************)
PagePost(id) == Obj([id |-> Str(id), message |-> Undefined, created_time |-> Str("t")])
\* answers of the client to a {page}/posts request: failures, and pages with or
\* without data, paging, cursors and after cursor
WalkResponses ==
    {RemoteFailure, NetworkFailure}
        \cup {Success(Obj([data |-> d, paging |-> pg])) :
                d \in {Undefined, Arr(<<>>), Arr(<<PagePost("x1")>>),
                       Arr(<<PagePost("x2")>>)},
                pg \in {Undefined, Obj([cursors |-> Undefined]),
                        Obj([cursors |-> Obj([after |-> Undefined])]),
                        Obj([cursors |-> Obj([after |-> Str("CURSOR_A")])]),
                        Obj([cursors |-> Obj([after |-> Str("CURSOR_B")])])}}

WalkEnd == [kind |-> "end", call |-> NoCall, err |-> ""]
WalkCall(c) == [kind |-> "call", call |-> c, err |-> ""]
WalkThrow(e) == [kind |-> "throw", call |-> NoCall, err |-> e]

\* mutant: the second page is requested whenever the first page has a post
NextPage_cursorNotChecked(page1) ==
    IF Get(page1, "data") = Undefined THEN WalkThrow("TypeError")
    ELSE IF Len(Get(page1, "data").a) > 0
    THEN WalkCall(Call("getPagePosts",
             <<Num(1), OptGet(OptGet(Get(page1, "paging"), "cursors"), "after")>>))
    ELSE WalkEnd

\* what the script does with the first page
NextPage(page1) ==
    IF Get(page1, "data") = Undefined THEN WalkThrow("TypeError")
    ELSE IF /\ Len(Get(page1, "data").a) > 0
            /\ Truthy(OptGet(OptGet(Get(page1, "paging"), "cursors"), "after"))
    THEN WalkCall(Call("getPagePosts",
             <<Num(1), OptGet(OptGet(Get(page1, "paging"), "cursors"), "after")>>))
    ELSE WalkEnd

InitWalk ==
    /\ manager \in {NewManager(g) : g \in Generations}
    /\ registry = NoRegistry
    /\ phase = "walk_start"
    /\ cur = NoInvocation
    /\ mcalls = <<>>
    /\ active = NoCall
    /\ log = <<>>
    /\ answers = <<>>
    /\ result = NoResult

\* const page1 = await manager.getPagePosts(1): up to the await
WalkBegin ==
    /\ phase = "walk_start"
    /\ \E c \in {Call("getPagePosts", <<Num(1)>>)} :
          /\ mcalls' = <<c>>
          /\ active' = c
          /\ log' = <<MgrStart(manager.gen, manager.pageId, c).req>>
    /\ phase' = "walk_page1"
    /\ UNCHANGED <<manager, registry, cur, answers, result>>

\* the first page arrives (or its request fails)
WalkPage1(resp) ==
    /\ phase = "walk_page1"
    /\ answers' = Append(answers, resp)
    /\ \E out \in {MgrResume(manager.gen, manager.pageId, active, 1, resp)} :
          IF out.kind = "throw"
          THEN /\ phase' = "walk_done"
               /\ result' = ErrorResult("request_error", out.err)
               /\ UNCHANGED <<mcalls, active, log>>
          ELSE \E nx \in {NextPage(out.v)} :
                  CASE nx.kind = "throw" ->
                          /\ phase' = "walk_done"
                          /\ result' = ErrorResult("error", nx.err)
                          /\ UNCHANGED <<mcalls, active, log>>
                    [] nx.kind = "end" ->
                          /\ phase' = "walk_done"
                          /\ result' = ValueResult(out.v)
                          /\ UNCHANGED <<mcalls, active, log>>
                    [] nx.kind = "call" ->
                          /\ phase' = "walk_page2"
                          /\ mcalls' = Append(mcalls, nx.call)
                          /\ active' = nx.call
                          /\ log' = Append(log,
                                 MgrStart(manager.gen, manager.pageId, nx.call).req)
                          /\ UNCHANGED result
    /\ UNCHANGED <<manager, registry, cur>>

\* the second page arrives (or its request fails); the script asks for no third
WalkPage2(resp) ==
    /\ phase = "walk_page2"
    /\ answers' = Append(answers, resp)
    /\ \E out \in {MgrResume(manager.gen, manager.pageId, active, 1, resp)} :
          result' = IF out.kind = "throw" THEN ErrorResult("request_error", out.err)
                    ELSE IF Get(out.v, "data") = Undefined
                    THEN ErrorResult("error", "TypeError")
                    ELSE ValueResult(out.v)
    /\ phase' = "walk_done"
    /\ UNCHANGED <<manager, registry, cur, mcalls, active, log>>

WalkPage1Any == phase = "walk_page1" /\ \E resp \in WalkResponses : WalkPage1(resp)
WalkPage2Any == phase = "walk_page2" /\ \E resp \in WalkResponses : WalkPage2(resp)

NextWalk ==
    \/ WalkBegin
    \/ WalkPage1Any
    \/ WalkPage2Any

\* the client settles every request, so the awaiting script always continues
SpecWalk == InitWalk /\ [][NextWalk]_vars /\ WF_vars(NextWalk)

AfterCursor(resp) ==
    IF resp.ok THEN Dig(resp.body, <<"paging", "cursors", "after">>) ELSE Undefined
IsPostsPageRequest(req) ==
    req.method = "GET" /\ req.endpoint = manager.pageId \o "/posts"
WalkFollowsCursors ==
    /\ \A k \in DOMAIN log :
          /\ IsPostsPageRequest(log[k])
          /\ Get(log[k].params, "after") =
                (IF k = 1 THEN Undefined ELSE AfterCursor(answers[k - 1]))
          /\ k > 1 => AfterCursor(answers[k - 1]) # Undefined
    /\ \A k \in DOMAIN answers :
          AfterCursor(answers[k]) = Undefined
              => phase = "walk_done" /\ Len(log) = k

\* C24: in the cursor walk over the page's posts, the first request carries no
\* cursor, every later request follows an answer that carried an after cursor and
\* forwards exactly that cursor, an answer without an after cursor ends the walk,
\* and the walk always ends.
C24_CursorWalk ==
    /\ []WalkFollowsCursors
    /\ <>(phase = "walk_done")
C24_Witness ==
    /\ phase = "walk_done"
    /\ Len(log) = 2
    /\ AfterCursor(answers[1]) = Str("CURSOR_B")
    /\ Get(log[2].params, "after") = Str("CURSOR_B")
    /\ Len(answers) = 2
    /\ AfterCursor(answers[2]) = Undefined

FeedRequests ==
    {k \in DOMAIN log : /\ log[k].endpoint = manager.pageId \o "/feed"
                        /\ log[k].params # Undefined}
ThroughToolOrSchedulePost ==
    cur.entry \in {"handler", "ai-sdk", "dispatch"} \/ active.m = "schedulePost"

\* C25: every {page}/feed request that carries a scheduled_publish_time, issued
\* through a tool handler or by schedulePost, carries published = false.
C25_SchedulingRequiresUnpublished ==
    \A k \in FeedRequests :
        (/\ ThroughToolOrSchedulePost
         /\ Get(log[k].params, "scheduled_publish_time") # Undefined)
            => Get(log[k].params, "published") = Bool(FALSE)

NonEmptyString(v) == v.t = "string" /\ "s" \in DOMAIN v /\ Len(v.s) >= 1

\* fb_create_post has run, as registry handler or as AI-SDK tool, and its
\* arguments passed the schema
CreatePostAccepted ==
    /\ cur.entry \in {"handler", "ai-sdk"}
    /\ phase \in {"awaiting", "done"}
    /\ result.kind # "validation_error"
    /\ cur.tool = "fb_create_post"

\* C26: an accepted fb_create_post invocation (registry handler or AI-SDK tool)
\* whose validated arguments hold no image_url calls postToFacebook, and every
\* postToFacebook call of an accepted fb_create_post invocation has a defined,
\* non-empty string as its message.
C26_TextPathHasMessage ==
    CreatePostAccepted
        => /\ Get(cur.parsed, "image_url") = Undefined
                => /\ Len(mcalls) = 1
                   /\ mcalls[1].m = "postToFacebook"
           /\ \A i \in DOMAIN mcalls :
                 mcalls[i].m = "postToFacebook"
                    => /\ NonEmptyString(Arg(mcalls[i], 1))
                       /\ Arg(mcalls[i], 1) = Get(cur.raw, "message")
                       /\ Get(log[1].params, "message") = Get(cur.raw, "message")
C26_Witness ==
    /\ HandlerAccepted
    /\ cur.tool = "fb_create_post"
    /\ Get(cur.raw, "image_url") = Undefined
    /\ mcalls[1].m = "postToFacebook"
    /\ Arg(mcalls[1], 1) = Str("x1")
    /\ Get(cur.raw, "place") = Str("")

\* the parameters of a request that have a value
SentParams(req) ==
    IF req.params = Undefined THEN {}
    ELSE {k \in DOMAIN req.params.f : req.params.f[k] # Undefined}
ImageWithPostOptions ==
    /\ HandlerAccepted
    /\ cur.tool = "fb_create_post"
    /\ Get(cur.raw, "image_url") # Undefined
    /\ \E k \in PostOptionFields : Get(cur.raw, k) # Undefined

\* C27: an accepted fb_create_post invocation that has an image_url together with
\* a link, place, published or scheduled_publish_time issues one request, the POST
\* to {page}/photos, whose only parameters are url and caption; no {page}/feed
\* request is issued.
C27_ImagePostDropsOptions ==
    ImageWithPostOptions
        => /\ Len(log) = 1
           /\ log[1].method = "POST"
           /\ log[1].endpoint = manager.pageId \o "/photos"
           /\ SentParams(log[1]) = {"url", "caption"}
           /\ Get(log[1].params, "url") = Get(cur.raw, "image_url")
           /\ log[1].body = Undefined
           /\ FeedRequests = {}
C27_Witness ==
    /\ ImageWithPostOptions
    /\ Get(cur.raw, "link") = Str("https://x/y.jpg")
    /\ Get(cur.raw, "place") = Str("x1")
    /\ Get(cur.raw, "published") = Bool(FALSE)
    /\ Get(cur.raw, "scheduled_publish_time") = Num(1735689600)
    /\ log[1].endpoint = "page1/photos"

EmptyMetricListGiven ==
    /\ phase # "idle"
    /\ mcalls # <<>>
    /\ active.m = "getInsights"
    /\ Arg(active, 2) = Arr(<<>>)

\* C28: getInsights called with an empty metric list requests the 8 default
\* metrics, as it does without a list, and no {post}/insights request has an
\* empty or missing metric parameter.
C28_EmptyMetricsMeansDefault ==
    /\ EmptyMetricListGiven
          => /\ Len(log) = 1
             /\ Get(log[1].params, "metric") = Str(DocumentedMetricList)
    /\ \A k \in DOMAIN log :
          (log[k].params # Undefined /\ IsInsightsRequest(log[k]))
              => /\ IsPlainString(Get(log[k].params, "metric"))
                 /\ Get(log[k].params, "metric").s # ""
C28_Witness ==
    /\ EmptyMetricListGiven
    /\ HandlerAccepted
    /\ cur.tool = "fb_get_insights"
    /\ Get(cur.raw, "metrics") = Arr(<<>>)
    /\ Get(log[1].params, "metric") = Str(DocumentedMetricList)

ToolsOfBothSurfaces ==
    {n \in Range(HandlerNames(manager.gen)) : n \in Range(AiSdkToolNames(manager.gen))}
\* the request a Manager call issues first (none for a call that awaits nothing)
FirstRequests(calls) ==
    IF calls = <<>> THEN <<>>
    ELSE LET out == MgrStart(manager.gen, manager.pageId, calls[1])
         IN IF out.kind = "request" THEN <<out.req>> ELSE <<>>
ValidOnBothSurfaces ==
    /\ phase \in {"awaiting", "done"}
    /\ cur.entry \in {"handler", "ai-sdk"}
    /\ cur.tool \in ToolsOfBothSurfaces
    /\ SchemaParse(manager.gen, cur.tool, cur.raw).ok

\* C29: for every tool both surfaces define and every argument object valid for
\* its schema, the invocation running on one surface (registry handler or AI-SDK
\* tool) has made the Manager calls, and issued the first request, that the other
\* surface makes for the same arguments.
C29_SurfacesEquivalent ==
    ValidOnBothSurfaces
        => /\ mcalls = RunHandler(manager.gen, cur.tool, cur.raw).calls
           /\ mcalls = RunTool(manager.gen, cur.tool, cur.raw).calls
           /\ (IF log = <<>> THEN <<>> ELSE <<log[1]>>) = FirstRequests(
                 IF cur.entry = "handler"
                 THEN RunTool(manager.gen, cur.tool, cur.raw).calls
                 ELSE RunHandler(manager.gen, cur.tool, cur.raw).calls)

ReelRunning ==
    phase # "idle" /\ mcalls # <<>> /\ active.m = "postReelToFacebook"
\* the video_id of the answer to the start request, Undefined when it has none
StartedVideoId ==
    IF answers # <<>> /\ answers[1].ok THEN Dig(answers[1].body, <<"video_id">>)
    ELSE Undefined
StartAnswerValues ==
    {Dig(answers[1].body, <<"video_id">>), Dig(answers[1].body, <<"upload_url">>)}
        \ {Undefined}

\* C30: postReelToFacebook first issues POST {page}/video_reels with upload_phase
\* = start; a second request exists only once that request was answered with a
\* video_id, and is POST {page}/videos with file_url = the video URL, title =
\* "Reel", the caption as description and nothing taken from the start answer;
\* a start answer without video_id ends the operation with the error "Failed to
\* initialize Reel upload" and no {page}/videos request.
C30_ReelFlow ==
    ReelRunning
        => /\ Len(log) \in 1..2
           /\ log[1].method = "POST"
           /\ log[1].endpoint = manager.pageId \o "/video_reels"
           /\ SentParams(log[1]) = {"upload_phase"}
           /\ Get(log[1].params, "upload_phase") = Str("start")
           /\ Len(log) = 2
                => /\ NonEmptyString(StartedVideoId)
                   /\ log[2].method = "POST"
                   /\ log[2].endpoint = manager.pageId \o "/videos"
                   /\ log[2].body = Undefined
                   /\ Get(log[2].params, "file_url") = Arg(active, 1)
                   /\ Get(log[2].params, "title") = Str("Reel")
                   /\ Get(log[2].params, "description") =
                         (IF NonEmptyString(Arg(active, 2)) THEN Arg(active, 2)
                          ELSE Undefined)
                   /\ SentParams(log[2]) \subseteq {"file_url", "title", "description"}
                   /\ \A k \in SentParams(log[2]) :
                         log[2].params.f[k] \notin StartAnswerValues
           /\ (answers # <<>> /\ answers[1].ok)
                => IF NonEmptyString(StartedVideoId)
                   THEN Len(log) = 2
                   ELSE /\ Len(log) = 1
                        /\ phase = "done"
                        /\ result.kind = "error"
                        /\ result.err = "Failed to initialize Reel upload"
           /\ (answers # <<>> /\ ~answers[1].ok) => Len(log) = 1 /\ phase = "done"
C30_Witness ==
    /\ ReelRunning
    /\ phase = "done"
    /\ Len(log) = 2
    /\ StartedVideoId = Str("v2")
    /\ Arg(active, 2) = Str("cap")
    /\ result.kind = "value"
C30_WitnessNoVideoId ==
    /\ ReelRunning
    /\ phase = "done"
    /\ answers = <<Success(Obj([video_id |-> Str(""), upload_url |-> Str("https://up")]))>>
    /\ result.err = "Failed to initialize Reel upload"

====
